---------------------------- MODULE Spec2Model ----------------------------
(***************************************************************************)
(* Model of the student-dropout expert-system server (src/app.py).         *)
(*                                                                         *)
(* The server is stateless: each request is served from the request body   *)
(* and from the files rules.json / facts.json as found on disk.  A         *)
(* behaviour of the model is one call: the initial state holds the call    *)
(* and its inputs (pc = "call"), the action of the called function or      *)
(* handler computes what the code computes and stores it in result         *)
(* (pc = "return").                                                        *)
(*                                                                         *)
(* Python values are tagged records ([type |-> "str", v |-> ..] and so on, *)
(* the tag being the name of the Python type) so that ==, truthiness, None *)
(* and the attribute errors of a value of the wrong type behave as in      *)
(* Python.  A str is the sequence of the Unicode code points of its        *)
(* characters, a dict the sequence of its entries in insertion order, a    *)
(* float the pair of a numerator and a denominator.  The words the code    *)
(* only writes (risk levels, error messages, names of exceptions and of    *)
(* the functions called) are TLA+ strings.  The text of an exception is    *)
(* that of CPython 3.11.                                                   *)
(***************************************************************************)
EXTENDS Integers, Sequences, FiniteSets, TLC

VARIABLES call, pc, result, calls

vars == <<call, pc, result, calls>>

---------------------------------------------------------------------------
(* Bounds of the model.                                                    *)

\* Longest string handed to the name converters.
MaxStrLen == 3

\* Most entries of a fact mapping (request body, match_rule's facts).
MaxFacts == 3

\* Most rules of a rule list.
MaxRules == 2

\* Most entries of facts.json.
MaxDefs == 3

\* Most remedies of a rule handed to the formatter.
MaxActions == 2

---------------------------------------------------------------------------
(* str.upper() and str.lower(), as CPython 3.11 computes them (Unicode     *)
(* 14.0.0).  A letter of ASCII changes case by 32.  For the code points    *)
(* above ASCII the tables hold the mappings to one character as ranges     *)
(* <<first, last, step, offset>> (every step-th code point from first to   *)
(* last maps to itself plus offset) and the mappings to several characters *)
(* as pairs <<code point, result>>; a code point in neither is mapped to   *)
(* itself.                                                                 *)

UpperRanges ==
    <<
      <<181, 181, 1, 743>>, <<224, 246, 1, -32>>, <<248, 254, 1, -32>>,
      <<255, 255, 1, 121>>, <<257, 303, 2, -1>>, <<305, 305, 1, -232>>,
      <<307, 311, 2, -1>>, <<314, 328, 2, -1>>, <<331, 375, 2, -1>>,
      <<378, 382, 2, -1>>, <<383, 383, 1, -300>>, <<384, 384, 1, 195>>,
      <<387, 389, 2, -1>>, <<392, 392, 1, -1>>, <<396, 396, 1, -1>>,
      <<402, 402, 1, -1>>, <<405, 405, 1, 97>>, <<409, 409, 1, -1>>,
      <<410, 410, 1, 163>>, <<414, 414, 1, 130>>, <<417, 421, 2, -1>>,
      <<424, 424, 1, -1>>, <<429, 429, 1, -1>>, <<432, 432, 1, -1>>,
      <<436, 438, 2, -1>>, <<441, 441, 1, -1>>, <<445, 445, 1, -1>>,
      <<447, 447, 1, 56>>, <<453, 453, 1, -1>>, <<454, 454, 1, -2>>,
      <<456, 456, 1, -1>>, <<457, 457, 1, -2>>, <<459, 459, 1, -1>>,
      <<460, 460, 1, -2>>, <<462, 476, 2, -1>>, <<477, 477, 1, -79>>,
      <<479, 495, 2, -1>>, <<498, 498, 1, -1>>, <<499, 499, 1, -2>>,
      <<501, 501, 1, -1>>, <<505, 543, 2, -1>>, <<547, 563, 2, -1>>,
      <<572, 572, 1, -1>>, <<575, 576, 1, 10815>>, <<578, 578, 1, -1>>,
      <<583, 591, 2, -1>>, <<592, 592, 1, 10783>>, <<593, 593, 1, 10780>>,
      <<594, 594, 1, 10782>>, <<595, 595, 1, -210>>, <<596, 596, 1, -206>>,
      <<598, 599, 1, -205>>, <<601, 601, 1, -202>>, <<603, 603, 1, -203>>,
      <<604, 604, 1, 42319>>, <<608, 608, 1, -205>>, <<609, 609, 1, 42315>>,
      <<611, 611, 1, -207>>, <<613, 613, 1, 42280>>, <<614, 614, 1, 42308>>,
      <<616, 616, 1, -209>>, <<617, 617, 1, -211>>, <<618, 618, 1, 42308>>,
      <<619, 619, 1, 10743>>, <<620, 620, 1, 42305>>, <<623, 623, 1, -211>>,
      <<625, 625, 1, 10749>>, <<626, 626, 1, -213>>, <<629, 629, 1, -214>>,
      <<637, 637, 1, 10727>>, <<640, 640, 1, -218>>, <<642, 642, 1, 42307>>,
      <<643, 643, 1, -218>>, <<647, 647, 1, 42282>>, <<648, 648, 1, -218>>,
      <<649, 649, 1, -69>>, <<650, 651, 1, -217>>, <<652, 652, 1, -71>>,
      <<658, 658, 1, -219>>, <<669, 669, 1, 42261>>, <<670, 670, 1, 42258>>,
      <<837, 837, 1, 84>>, <<881, 883, 2, -1>>, <<887, 887, 1, -1>>,
      <<891, 893, 1, 130>>, <<940, 940, 1, -38>>, <<941, 943, 1, -37>>,
      <<945, 961, 1, -32>>, <<962, 962, 1, -31>>, <<963, 971, 1, -32>>,
      <<972, 972, 1, -64>>, <<973, 974, 1, -63>>, <<976, 976, 1, -62>>,
      <<977, 977, 1, -57>>, <<981, 981, 1, -47>>, <<982, 982, 1, -54>>,
      <<983, 983, 1, -8>>, <<985, 1007, 2, -1>>, <<1008, 1008, 1, -86>>,
      <<1009, 1009, 1, -80>>, <<1010, 1010, 1, 7>>, <<1011, 1011, 1, -116>>,
      <<1013, 1013, 1, -96>>, <<1016, 1016, 1, -1>>, <<1019, 1019, 1, -1>>,
      <<1072, 1103, 1, -32>>, <<1104, 1119, 1, -80>>, <<1121, 1153, 2, -1>>,
      <<1163, 1215, 2, -1>>, <<1218, 1230, 2, -1>>, <<1231, 1231, 1, -15>>,
      <<1233, 1327, 2, -1>>, <<1377, 1414, 1, -48>>,
      <<4304, 4346, 1, 3008>>, <<4349, 4351, 1, 3008>>,
      <<5112, 5117, 1, -8>>, <<7296, 7296, 1, -6254>>,
      <<7297, 7297, 1, -6253>>, <<7298, 7298, 1, -6244>>,
      <<7299, 7300, 1, -6242>>, <<7301, 7301, 1, -6243>>,
      <<7302, 7302, 1, -6236>>, <<7303, 7303, 1, -6181>>,
      <<7304, 7304, 1, 35266>>, <<7545, 7545, 1, 35332>>,
      <<7549, 7549, 1, 3814>>, <<7566, 7566, 1, 35384>>,
      <<7681, 7829, 2, -1>>, <<7835, 7835, 1, -59>>, <<7841, 7935, 2, -1>>,
      <<7936, 7943, 1, 8>>, <<7952, 7957, 1, 8>>, <<7968, 7975, 1, 8>>,
      <<7984, 7991, 1, 8>>, <<8000, 8005, 1, 8>>, <<8017, 8023, 2, 8>>,
      <<8032, 8039, 1, 8>>, <<8048, 8049, 1, 74>>, <<8050, 8053, 1, 86>>,
      <<8054, 8055, 1, 100>>, <<8056, 8057, 1, 128>>,
      <<8058, 8059, 1, 112>>, <<8060, 8061, 1, 126>>, <<8112, 8113, 1, 8>>,
      <<8126, 8126, 1, -7205>>, <<8144, 8145, 1, 8>>, <<8160, 8161, 1, 8>>,
      <<8165, 8165, 1, 7>>, <<8526, 8526, 1, -28>>, <<8560, 8575, 1, -16>>,
      <<8580, 8580, 1, -1>>, <<9424, 9449, 1, -26>>,
      <<11312, 11359, 1, -48>>, <<11361, 11361, 1, -1>>,
      <<11365, 11365, 1, -10795>>, <<11366, 11366, 1, -10792>>,
      <<11368, 11372, 2, -1>>, <<11379, 11379, 1, -1>>,
      <<11382, 11382, 1, -1>>, <<11393, 11491, 2, -1>>,
      <<11500, 11502, 2, -1>>, <<11507, 11507, 1, -1>>,
      <<11520, 11557, 1, -7264>>, <<11559, 11559, 1, -7264>>,
      <<11565, 11565, 1, -7264>>, <<42561, 42605, 2, -1>>,
      <<42625, 42651, 2, -1>>, <<42787, 42799, 2, -1>>,
      <<42803, 42863, 2, -1>>, <<42874, 42876, 2, -1>>,
      <<42879, 42887, 2, -1>>, <<42892, 42892, 1, -1>>,
      <<42897, 42899, 2, -1>>, <<42900, 42900, 1, 48>>,
      <<42903, 42921, 2, -1>>, <<42933, 42947, 2, -1>>,
      <<42952, 42954, 2, -1>>, <<42961, 42961, 1, -1>>,
      <<42967, 42969, 2, -1>>, <<42998, 42998, 1, -1>>,
      <<43859, 43859, 1, -928>>, <<43888, 43967, 1, -38864>>,
      <<65345, 65370, 1, -32>>, <<66600, 66639, 1, -40>>,
      <<66776, 66811, 1, -40>>, <<66967, 66977, 1, -39>>,
      <<66979, 66993, 1, -39>>, <<66995, 67001, 1, -39>>,
      <<67003, 67004, 1, -39>>, <<68800, 68850, 1, -64>>,
      <<71872, 71903, 1, -32>>, <<93792, 93823, 1, -32>>,
      <<125218, 125251, 1, -34>>
    >>

UpperSpecial ==
    <<
      <<223, <<83, 83>>>>, <<329, <<700, 78>>>>, <<496, <<74, 780>>>>,
      <<912, <<921, 776, 769>>>>, <<944, <<933, 776, 769>>>>,
      <<1415, <<1333, 1362>>>>, <<7830, <<72, 817>>>>,
      <<7831, <<84, 776>>>>, <<7832, <<87, 778>>>>, <<7833, <<89, 778>>>>,
      <<7834, <<65, 702>>>>, <<8016, <<933, 787>>>>,
      <<8018, <<933, 787, 768>>>>, <<8020, <<933, 787, 769>>>>,
      <<8022, <<933, 787, 834>>>>, <<8064, <<7944, 921>>>>,
      <<8065, <<7945, 921>>>>, <<8066, <<7946, 921>>>>,
      <<8067, <<7947, 921>>>>, <<8068, <<7948, 921>>>>,
      <<8069, <<7949, 921>>>>, <<8070, <<7950, 921>>>>,
      <<8071, <<7951, 921>>>>, <<8072, <<7944, 921>>>>,
      <<8073, <<7945, 921>>>>, <<8074, <<7946, 921>>>>,
      <<8075, <<7947, 921>>>>, <<8076, <<7948, 921>>>>,
      <<8077, <<7949, 921>>>>, <<8078, <<7950, 921>>>>,
      <<8079, <<7951, 921>>>>, <<8080, <<7976, 921>>>>,
      <<8081, <<7977, 921>>>>, <<8082, <<7978, 921>>>>,
      <<8083, <<7979, 921>>>>, <<8084, <<7980, 921>>>>,
      <<8085, <<7981, 921>>>>, <<8086, <<7982, 921>>>>,
      <<8087, <<7983, 921>>>>, <<8088, <<7976, 921>>>>,
      <<8089, <<7977, 921>>>>, <<8090, <<7978, 921>>>>,
      <<8091, <<7979, 921>>>>, <<8092, <<7980, 921>>>>,
      <<8093, <<7981, 921>>>>, <<8094, <<7982, 921>>>>,
      <<8095, <<7983, 921>>>>, <<8096, <<8040, 921>>>>,
      <<8097, <<8041, 921>>>>, <<8098, <<8042, 921>>>>,
      <<8099, <<8043, 921>>>>, <<8100, <<8044, 921>>>>,
      <<8101, <<8045, 921>>>>, <<8102, <<8046, 921>>>>,
      <<8103, <<8047, 921>>>>, <<8104, <<8040, 921>>>>,
      <<8105, <<8041, 921>>>>, <<8106, <<8042, 921>>>>,
      <<8107, <<8043, 921>>>>, <<8108, <<8044, 921>>>>,
      <<8109, <<8045, 921>>>>, <<8110, <<8046, 921>>>>,
      <<8111, <<8047, 921>>>>, <<8114, <<8122, 921>>>>,
      <<8115, <<913, 921>>>>, <<8116, <<902, 921>>>>,
      <<8118, <<913, 834>>>>, <<8119, <<913, 834, 921>>>>,
      <<8124, <<913, 921>>>>, <<8130, <<8138, 921>>>>,
      <<8131, <<919, 921>>>>, <<8132, <<905, 921>>>>,
      <<8134, <<919, 834>>>>, <<8135, <<919, 834, 921>>>>,
      <<8140, <<919, 921>>>>, <<8146, <<921, 776, 768>>>>,
      <<8147, <<921, 776, 769>>>>, <<8150, <<921, 834>>>>,
      <<8151, <<921, 776, 834>>>>, <<8162, <<933, 776, 768>>>>,
      <<8163, <<933, 776, 769>>>>, <<8164, <<929, 787>>>>,
      <<8166, <<933, 834>>>>, <<8167, <<933, 776, 834>>>>,
      <<8178, <<8186, 921>>>>, <<8179, <<937, 921>>>>,
      <<8180, <<911, 921>>>>, <<8182, <<937, 834>>>>,
      <<8183, <<937, 834, 921>>>>, <<8188, <<937, 921>>>>,
      <<64256, <<70, 70>>>>, <<64257, <<70, 73>>>>, <<64258, <<70, 76>>>>,
      <<64259, <<70, 70, 73>>>>, <<64260, <<70, 70, 76>>>>,
      <<64261, <<83, 84>>>>, <<64262, <<83, 84>>>>,
      <<64275, <<1348, 1350>>>>, <<64276, <<1348, 1333>>>>,
      <<64277, <<1348, 1339>>>>, <<64278, <<1358, 1350>>>>,
      <<64279, <<1348, 1341>>>>
    >>

LowerRanges ==
    <<
      <<192, 214, 1, 32>>, <<216, 222, 1, 32>>, <<256, 302, 2, 1>>,
      <<306, 310, 2, 1>>, <<313, 327, 2, 1>>, <<330, 374, 2, 1>>,
      <<376, 376, 1, -121>>, <<377, 381, 2, 1>>, <<385, 385, 1, 210>>,
      <<386, 388, 2, 1>>, <<390, 390, 1, 206>>, <<391, 391, 1, 1>>,
      <<393, 394, 1, 205>>, <<395, 395, 1, 1>>, <<398, 398, 1, 79>>,
      <<399, 399, 1, 202>>, <<400, 400, 1, 203>>, <<401, 401, 1, 1>>,
      <<403, 403, 1, 205>>, <<404, 404, 1, 207>>, <<406, 406, 1, 211>>,
      <<407, 407, 1, 209>>, <<408, 408, 1, 1>>, <<412, 412, 1, 211>>,
      <<413, 413, 1, 213>>, <<415, 415, 1, 214>>, <<416, 420, 2, 1>>,
      <<422, 422, 1, 218>>, <<423, 423, 1, 1>>, <<425, 425, 1, 218>>,
      <<428, 428, 1, 1>>, <<430, 430, 1, 218>>, <<431, 431, 1, 1>>,
      <<433, 434, 1, 217>>, <<435, 437, 2, 1>>, <<439, 439, 1, 219>>,
      <<440, 440, 1, 1>>, <<444, 444, 1, 1>>, <<452, 452, 1, 2>>,
      <<453, 453, 1, 1>>, <<455, 455, 1, 2>>, <<456, 456, 1, 1>>,
      <<458, 458, 1, 2>>, <<459, 475, 2, 1>>, <<478, 494, 2, 1>>,
      <<497, 497, 1, 2>>, <<498, 500, 2, 1>>, <<502, 502, 1, -97>>,
      <<503, 503, 1, -56>>, <<504, 542, 2, 1>>, <<544, 544, 1, -130>>,
      <<546, 562, 2, 1>>, <<570, 570, 1, 10795>>, <<571, 571, 1, 1>>,
      <<573, 573, 1, -163>>, <<574, 574, 1, 10792>>, <<577, 577, 1, 1>>,
      <<579, 579, 1, -195>>, <<580, 580, 1, 69>>, <<581, 581, 1, 71>>,
      <<582, 590, 2, 1>>, <<880, 882, 2, 1>>, <<886, 886, 1, 1>>,
      <<895, 895, 1, 116>>, <<902, 902, 1, 38>>, <<904, 906, 1, 37>>,
      <<908, 908, 1, 64>>, <<910, 911, 1, 63>>, <<913, 929, 1, 32>>,
      <<931, 939, 1, 32>>, <<975, 975, 1, 8>>, <<984, 1006, 2, 1>>,
      <<1012, 1012, 1, -60>>, <<1015, 1015, 1, 1>>, <<1017, 1017, 1, -7>>,
      <<1018, 1018, 1, 1>>, <<1021, 1023, 1, -130>>, <<1024, 1039, 1, 80>>,
      <<1040, 1071, 1, 32>>, <<1120, 1152, 2, 1>>, <<1162, 1214, 2, 1>>,
      <<1216, 1216, 1, 15>>, <<1217, 1229, 2, 1>>, <<1232, 1326, 2, 1>>,
      <<1329, 1366, 1, 48>>, <<4256, 4293, 1, 7264>>,
      <<4295, 4295, 1, 7264>>, <<4301, 4301, 1, 7264>>,
      <<5024, 5103, 1, 38864>>, <<5104, 5109, 1, 8>>,
      <<7312, 7354, 1, -3008>>, <<7357, 7359, 1, -3008>>,
      <<7680, 7828, 2, 1>>, <<7838, 7838, 1, -7615>>, <<7840, 7934, 2, 1>>,
      <<7944, 7951, 1, -8>>, <<7960, 7965, 1, -8>>, <<7976, 7983, 1, -8>>,
      <<7992, 7999, 1, -8>>, <<8008, 8013, 1, -8>>, <<8025, 8031, 2, -8>>,
      <<8040, 8047, 1, -8>>, <<8072, 8079, 1, -8>>, <<8088, 8095, 1, -8>>,
      <<8104, 8111, 1, -8>>, <<8120, 8121, 1, -8>>, <<8122, 8123, 1, -74>>,
      <<8124, 8124, 1, -9>>, <<8136, 8139, 1, -86>>, <<8140, 8140, 1, -9>>,
      <<8152, 8153, 1, -8>>, <<8154, 8155, 1, -100>>, <<8168, 8169, 1, -8>>,
      <<8170, 8171, 1, -112>>, <<8172, 8172, 1, -7>>,
      <<8184, 8185, 1, -128>>, <<8186, 8187, 1, -126>>,
      <<8188, 8188, 1, -9>>, <<8486, 8486, 1, -7517>>,
      <<8490, 8490, 1, -8383>>, <<8491, 8491, 1, -8262>>,
      <<8498, 8498, 1, 28>>, <<8544, 8559, 1, 16>>, <<8579, 8579, 1, 1>>,
      <<9398, 9423, 1, 26>>, <<11264, 11311, 1, 48>>,
      <<11360, 11360, 1, 1>>, <<11362, 11362, 1, -10743>>,
      <<11363, 11363, 1, -3814>>, <<11364, 11364, 1, -10727>>,
      <<11367, 11371, 2, 1>>, <<11373, 11373, 1, -10780>>,
      <<11374, 11374, 1, -10749>>, <<11375, 11375, 1, -10783>>,
      <<11376, 11376, 1, -10782>>, <<11378, 11378, 1, 1>>,
      <<11381, 11381, 1, 1>>, <<11390, 11391, 1, -10815>>,
      <<11392, 11490, 2, 1>>, <<11499, 11501, 2, 1>>,
      <<11506, 11506, 1, 1>>, <<42560, 42604, 2, 1>>,
      <<42624, 42650, 2, 1>>, <<42786, 42798, 2, 1>>,
      <<42802, 42862, 2, 1>>, <<42873, 42875, 2, 1>>,
      <<42877, 42877, 1, -35332>>, <<42878, 42886, 2, 1>>,
      <<42891, 42891, 1, 1>>, <<42893, 42893, 1, -42280>>,
      <<42896, 42898, 2, 1>>, <<42902, 42920, 2, 1>>,
      <<42922, 42922, 1, -42308>>, <<42923, 42923, 1, -42319>>,
      <<42924, 42924, 1, -42315>>, <<42925, 42925, 1, -42305>>,
      <<42926, 42926, 1, -42308>>, <<42928, 42928, 1, -42258>>,
      <<42929, 42929, 1, -42282>>, <<42930, 42930, 1, -42261>>,
      <<42931, 42931, 1, 928>>, <<42932, 42946, 2, 1>>,
      <<42948, 42948, 1, -48>>, <<42949, 42949, 1, -42307>>,
      <<42950, 42950, 1, -35384>>, <<42951, 42953, 2, 1>>,
      <<42960, 42960, 1, 1>>, <<42966, 42968, 2, 1>>,
      <<42997, 42997, 1, 1>>, <<65313, 65338, 1, 32>>,
      <<66560, 66599, 1, 40>>, <<66736, 66771, 1, 40>>,
      <<66928, 66938, 1, 39>>, <<66940, 66954, 1, 39>>,
      <<66956, 66962, 1, 39>>, <<66964, 66965, 1, 39>>,
      <<68736, 68786, 1, 64>>, <<71840, 71871, 1, 32>>,
      <<93760, 93791, 1, 32>>, <<125184, 125217, 1, 34>>
    >>

LowerSpecial ==
    <<
      <<304, <<105, 775>>>>
    >>

InRange(c, r) == r[1] <= c /\ c <= r[2] /\ (c - r[1]) % r[3] = 0

\* The offset of the range that holds c, 0 when no range does.
Offset(c, ranges) ==
    LET hits == {i \in 1..Len(ranges) : InRange(c, ranges[i])}
    IN  IF hits = {} THEN 0 ELSE ranges[CHOOSE i \in hits : TRUE][4]

\* The several characters c maps to, <<>> when it maps to one.
Special(c, special) ==
    LET hits == {i \in 1..Len(special) : special[i][1] = c}
    IN  IF hits = {} THEN <<>> ELSE special[CHOOSE i \in hits : TRUE][2]

\* c.upper() for a one-character string c: a string, of up to three
\* characters (U+00DF, the sharp s, gives "SS").
UpperChar(c) ==
    IF c < 128 THEN (IF 97 <= c /\ c <= 122 THEN <<c - 32>> ELSE <<c>>)
    ELSE LET several == Special(c, UpperSpecial)
         IN  IF several # <<>> THEN several ELSE <<c + Offset(c, UpperRanges)>>

\* c.lower() for a one-character string c (U+0130, the dotted capital I,
\* gives "i" and a combining dot).
LowerChar(c) ==
    IF c < 128 THEN (IF 65 <= c /\ c <= 90 THEN <<c + 32>> ELSE <<c>>)
    ELSE LET several == Special(c, LowerSpecial)
         IN  IF several # <<>> THEN several ELSE <<c + Offset(c, LowerRanges)>>

(* Inside a longer string the lower case of the capital sigma (U+03A3)     *)
(* depends on its neighbours: it is the final sigma (U+03C2) after a cased *)
(* letter and not before one, case-ignorable characters in between being   *)
(* skipped, and the small sigma (U+03C3) otherwise.  The two tables hold,  *)
(* as ranges <<first, last>>, the case-ignorable code points and the cased *)
(* code points that are not case-ignorable (the scan tests for a case only *)
(* the character it stops at, which is not case-ignorable).                *)

CaseIgnorableRanges ==
    <<
      <<39, 39>>, <<46, 46>>, <<58, 58>>, <<94, 94>>, <<96, 96>>,
      <<168, 168>>, <<173, 173>>, <<175, 175>>, <<180, 180>>, <<183, 184>>,
      <<688, 879>>, <<884, 885>>, <<890, 890>>, <<900, 901>>, <<903, 903>>,
      <<1155, 1161>>, <<1369, 1369>>, <<1375, 1375>>, <<1425, 1469>>,
      <<1471, 1471>>, <<1473, 1474>>, <<1476, 1477>>, <<1479, 1479>>,
      <<1524, 1524>>, <<1536, 1541>>, <<1552, 1562>>, <<1564, 1564>>,
      <<1600, 1600>>, <<1611, 1631>>, <<1648, 1648>>, <<1750, 1757>>,
      <<1759, 1768>>, <<1770, 1773>>, <<1807, 1807>>, <<1809, 1809>>,
      <<1840, 1866>>, <<1958, 1968>>, <<2027, 2037>>, <<2042, 2042>>,
      <<2045, 2045>>, <<2070, 2093>>, <<2137, 2139>>, <<2184, 2184>>,
      <<2192, 2193>>, <<2200, 2207>>, <<2249, 2306>>, <<2362, 2362>>,
      <<2364, 2364>>, <<2369, 2376>>, <<2381, 2381>>, <<2385, 2391>>,
      <<2402, 2403>>, <<2417, 2417>>, <<2433, 2433>>, <<2492, 2492>>,
      <<2497, 2500>>, <<2509, 2509>>, <<2530, 2531>>, <<2558, 2558>>,
      <<2561, 2562>>, <<2620, 2620>>, <<2625, 2626>>, <<2631, 2632>>,
      <<2635, 2637>>, <<2641, 2641>>, <<2672, 2673>>, <<2677, 2677>>,
      <<2689, 2690>>, <<2748, 2748>>, <<2753, 2757>>, <<2759, 2760>>,
      <<2765, 2765>>, <<2786, 2787>>, <<2810, 2815>>, <<2817, 2817>>,
      <<2876, 2876>>, <<2879, 2879>>, <<2881, 2884>>, <<2893, 2893>>,
      <<2901, 2902>>, <<2914, 2915>>, <<2946, 2946>>, <<3008, 3008>>,
      <<3021, 3021>>, <<3072, 3072>>, <<3076, 3076>>, <<3132, 3132>>,
      <<3134, 3136>>, <<3142, 3144>>, <<3146, 3149>>, <<3157, 3158>>,
      <<3170, 3171>>, <<3201, 3201>>, <<3260, 3260>>, <<3263, 3263>>,
      <<3270, 3270>>, <<3276, 3277>>, <<3298, 3299>>, <<3328, 3329>>,
      <<3387, 3388>>, <<3393, 3396>>, <<3405, 3405>>, <<3426, 3427>>,
      <<3457, 3457>>, <<3530, 3530>>, <<3538, 3540>>, <<3542, 3542>>,
      <<3633, 3633>>, <<3636, 3642>>, <<3654, 3662>>, <<3761, 3761>>,
      <<3764, 3772>>, <<3782, 3782>>, <<3784, 3789>>, <<3864, 3865>>,
      <<3893, 3893>>, <<3895, 3895>>, <<3897, 3897>>, <<3953, 3966>>,
      <<3968, 3972>>, <<3974, 3975>>, <<3981, 3991>>, <<3993, 4028>>,
      <<4038, 4038>>, <<4141, 4144>>, <<4146, 4151>>, <<4153, 4154>>,
      <<4157, 4158>>, <<4184, 4185>>, <<4190, 4192>>, <<4209, 4212>>,
      <<4226, 4226>>, <<4229, 4230>>, <<4237, 4237>>, <<4253, 4253>>,
      <<4348, 4348>>, <<4957, 4959>>, <<5906, 5908>>, <<5938, 5939>>,
      <<5970, 5971>>, <<6002, 6003>>, <<6068, 6069>>, <<6071, 6077>>,
      <<6086, 6086>>, <<6089, 6099>>, <<6103, 6103>>, <<6109, 6109>>,
      <<6155, 6159>>, <<6211, 6211>>, <<6277, 6278>>, <<6313, 6313>>,
      <<6432, 6434>>, <<6439, 6440>>, <<6450, 6450>>, <<6457, 6459>>,
      <<6679, 6680>>, <<6683, 6683>>, <<6742, 6742>>, <<6744, 6750>>,
      <<6752, 6752>>, <<6754, 6754>>, <<6757, 6764>>, <<6771, 6780>>,
      <<6783, 6783>>, <<6823, 6823>>, <<6832, 6862>>, <<6912, 6915>>,
      <<6964, 6964>>, <<6966, 6970>>, <<6972, 6972>>, <<6978, 6978>>,
      <<7019, 7027>>, <<7040, 7041>>, <<7074, 7077>>, <<7080, 7081>>,
      <<7083, 7085>>, <<7142, 7142>>, <<7144, 7145>>, <<7149, 7149>>,
      <<7151, 7153>>, <<7212, 7219>>, <<7222, 7223>>, <<7288, 7293>>,
      <<7376, 7378>>, <<7380, 7392>>, <<7394, 7400>>, <<7405, 7405>>,
      <<7412, 7412>>, <<7416, 7417>>, <<7468, 7530>>, <<7544, 7544>>,
      <<7579, 7679>>, <<8125, 8125>>, <<8127, 8129>>, <<8141, 8143>>,
      <<8157, 8159>>, <<8173, 8175>>, <<8189, 8190>>, <<8203, 8207>>,
      <<8216, 8217>>, <<8228, 8228>>, <<8231, 8231>>, <<8234, 8238>>,
      <<8288, 8292>>, <<8294, 8303>>, <<8305, 8305>>, <<8319, 8319>>,
      <<8336, 8348>>, <<8400, 8432>>, <<11388, 11389>>, <<11503, 11505>>,
      <<11631, 11631>>, <<11647, 11647>>, <<11744, 11775>>,
      <<11823, 11823>>, <<12293, 12293>>, <<12330, 12333>>,
      <<12337, 12341>>, <<12347, 12347>>, <<12441, 12446>>,
      <<12540, 12542>>, <<40981, 40981>>, <<42232, 42237>>,
      <<42508, 42508>>, <<42607, 42610>>, <<42612, 42621>>,
      <<42623, 42623>>, <<42652, 42655>>, <<42736, 42737>>,
      <<42752, 42785>>, <<42864, 42864>>, <<42888, 42890>>,
      <<42994, 42996>>, <<43000, 43001>>, <<43010, 43010>>,
      <<43014, 43014>>, <<43019, 43019>>, <<43045, 43046>>,
      <<43052, 43052>>, <<43204, 43205>>, <<43232, 43249>>,
      <<43263, 43263>>, <<43302, 43309>>, <<43335, 43345>>,
      <<43392, 43394>>, <<43443, 43443>>, <<43446, 43449>>,
      <<43452, 43453>>, <<43471, 43471>>, <<43493, 43494>>,
      <<43561, 43566>>, <<43569, 43570>>, <<43573, 43574>>,
      <<43587, 43587>>, <<43596, 43596>>, <<43632, 43632>>,
      <<43644, 43644>>, <<43696, 43696>>, <<43698, 43700>>,
      <<43703, 43704>>, <<43710, 43711>>, <<43713, 43713>>,
      <<43741, 43741>>, <<43756, 43757>>, <<43763, 43764>>,
      <<43766, 43766>>, <<43867, 43871>>, <<43881, 43883>>,
      <<44005, 44005>>, <<44008, 44008>>, <<44013, 44013>>,
      <<64286, 64286>>, <<64434, 64450>>, <<65024, 65039>>,
      <<65043, 65043>>, <<65056, 65071>>, <<65106, 65106>>,
      <<65109, 65109>>, <<65279, 65279>>, <<65287, 65287>>,
      <<65294, 65294>>, <<65306, 65306>>, <<65342, 65342>>,
      <<65344, 65344>>, <<65392, 65392>>, <<65438, 65439>>,
      <<65507, 65507>>, <<65529, 65531>>, <<66045, 66045>>,
      <<66272, 66272>>, <<66422, 66426>>, <<67456, 67461>>,
      <<67463, 67504>>, <<67506, 67514>>, <<68097, 68099>>,
      <<68101, 68102>>, <<68108, 68111>>, <<68152, 68154>>,
      <<68159, 68159>>, <<68325, 68326>>, <<68900, 68903>>,
      <<69291, 69292>>, <<69446, 69456>>, <<69506, 69509>>,
      <<69633, 69633>>, <<69688, 69702>>, <<69744, 69744>>,
      <<69747, 69748>>, <<69759, 69761>>, <<69811, 69814>>,
      <<69817, 69818>>, <<69821, 69821>>, <<69826, 69826>>,
      <<69837, 69837>>, <<69888, 69890>>, <<69927, 69931>>,
      <<69933, 69940>>, <<70003, 70003>>, <<70016, 70017>>,
      <<70070, 70078>>, <<70089, 70092>>, <<70095, 70095>>,
      <<70191, 70193>>, <<70196, 70196>>, <<70198, 70199>>,
      <<70206, 70206>>, <<70367, 70367>>, <<70371, 70378>>,
      <<70400, 70401>>, <<70459, 70460>>, <<70464, 70464>>,
      <<70502, 70508>>, <<70512, 70516>>, <<70712, 70719>>,
      <<70722, 70724>>, <<70726, 70726>>, <<70750, 70750>>,
      <<70835, 70840>>, <<70842, 70842>>, <<70847, 70848>>,
      <<70850, 70851>>, <<71090, 71093>>, <<71100, 71101>>,
      <<71103, 71104>>, <<71132, 71133>>, <<71219, 71226>>,
      <<71229, 71229>>, <<71231, 71232>>, <<71339, 71339>>,
      <<71341, 71341>>, <<71344, 71349>>, <<71351, 71351>>,
      <<71453, 71455>>, <<71458, 71461>>, <<71463, 71467>>,
      <<71727, 71735>>, <<71737, 71738>>, <<71995, 71996>>,
      <<71998, 71998>>, <<72003, 72003>>, <<72148, 72151>>,
      <<72154, 72155>>, <<72160, 72160>>, <<72193, 72202>>,
      <<72243, 72248>>, <<72251, 72254>>, <<72263, 72263>>,
      <<72273, 72278>>, <<72281, 72283>>, <<72330, 72342>>,
      <<72344, 72345>>, <<72752, 72758>>, <<72760, 72765>>,
      <<72767, 72767>>, <<72850, 72871>>, <<72874, 72880>>,
      <<72882, 72883>>, <<72885, 72886>>, <<73009, 73014>>,
      <<73018, 73018>>, <<73020, 73021>>, <<73023, 73029>>,
      <<73031, 73031>>, <<73104, 73105>>, <<73109, 73109>>,
      <<73111, 73111>>, <<73459, 73460>>, <<78896, 78904>>,
      <<92912, 92916>>, <<92976, 92982>>, <<92992, 92995>>,
      <<94031, 94031>>, <<94095, 94111>>, <<94176, 94177>>,
      <<94179, 94180>>, <<110576, 110579>>, <<110581, 110587>>,
      <<110589, 110590>>, <<113821, 113822>>, <<113824, 113827>>,
      <<118528, 118573>>, <<118576, 118598>>, <<119143, 119145>>,
      <<119155, 119170>>, <<119173, 119179>>, <<119210, 119213>>,
      <<119362, 119364>>, <<121344, 121398>>, <<121403, 121452>>,
      <<121461, 121461>>, <<121476, 121476>>, <<121499, 121503>>,
      <<121505, 121519>>, <<122880, 122886>>, <<122888, 122904>>,
      <<122907, 122913>>, <<122915, 122916>>, <<122918, 122922>>,
      <<123184, 123197>>, <<123566, 123566>>, <<123628, 123631>>,
      <<125136, 125142>>, <<125252, 125259>>, <<127995, 127999>>,
      <<917505, 917505>>, <<917536, 917631>>, <<917760, 917999>>
    >>

CasedRanges ==
    <<
      <<65, 90>>, <<97, 122>>, <<170, 170>>, <<181, 181>>, <<186, 186>>,
      <<192, 214>>, <<216, 246>>, <<248, 442>>, <<444, 447>>, <<452, 659>>,
      <<661, 687>>, <<880, 883>>, <<886, 887>>, <<891, 893>>, <<895, 895>>,
      <<902, 902>>, <<904, 906>>, <<908, 908>>, <<910, 929>>, <<931, 1013>>,
      <<1015, 1153>>, <<1162, 1327>>, <<1329, 1366>>, <<1376, 1416>>,
      <<4256, 4293>>, <<4295, 4295>>, <<4301, 4301>>, <<4304, 4346>>,
      <<4349, 4351>>, <<5024, 5109>>, <<5112, 5117>>, <<7296, 7304>>,
      <<7312, 7354>>, <<7357, 7359>>, <<7424, 7467>>, <<7531, 7543>>,
      <<7545, 7578>>, <<7680, 7957>>, <<7960, 7965>>, <<7968, 8005>>,
      <<8008, 8013>>, <<8016, 8023>>, <<8025, 8025>>, <<8027, 8027>>,
      <<8029, 8029>>, <<8031, 8061>>, <<8064, 8116>>, <<8118, 8124>>,
      <<8126, 8126>>, <<8130, 8132>>, <<8134, 8140>>, <<8144, 8147>>,
      <<8150, 8155>>, <<8160, 8172>>, <<8178, 8180>>, <<8182, 8188>>,
      <<8450, 8450>>, <<8455, 8455>>, <<8458, 8467>>, <<8469, 8469>>,
      <<8473, 8477>>, <<8484, 8484>>, <<8486, 8486>>, <<8488, 8488>>,
      <<8490, 8493>>, <<8495, 8500>>, <<8505, 8505>>, <<8508, 8511>>,
      <<8517, 8521>>, <<8526, 8526>>, <<8544, 8575>>, <<8579, 8580>>,
      <<9398, 9449>>, <<11264, 11387>>, <<11390, 11492>>, <<11499, 11502>>,
      <<11506, 11507>>, <<11520, 11557>>, <<11559, 11559>>,
      <<11565, 11565>>, <<42560, 42605>>, <<42624, 42651>>,
      <<42786, 42863>>, <<42865, 42887>>, <<42891, 42894>>,
      <<42896, 42954>>, <<42960, 42961>>, <<42963, 42963>>,
      <<42965, 42969>>, <<42997, 42998>>, <<43002, 43002>>,
      <<43824, 43866>>, <<43872, 43880>>, <<43888, 43967>>,
      <<64256, 64262>>, <<64275, 64279>>, <<65313, 65338>>,
      <<65345, 65370>>, <<66560, 66639>>, <<66736, 66771>>,
      <<66776, 66811>>, <<66928, 66938>>, <<66940, 66954>>,
      <<66956, 66962>>, <<66964, 66965>>, <<66967, 66977>>,
      <<66979, 66993>>, <<66995, 67001>>, <<67003, 67004>>,
      <<68736, 68786>>, <<68800, 68850>>, <<71840, 71903>>,
      <<93760, 93823>>, <<119808, 119892>>, <<119894, 119964>>,
      <<119966, 119967>>, <<119970, 119970>>, <<119973, 119974>>,
      <<119977, 119980>>, <<119982, 119993>>, <<119995, 119995>>,
      <<119997, 120003>>, <<120005, 120069>>, <<120071, 120074>>,
      <<120077, 120084>>, <<120086, 120092>>, <<120094, 120121>>,
      <<120123, 120126>>, <<120128, 120132>>, <<120134, 120134>>,
      <<120138, 120144>>, <<120146, 120485>>, <<120488, 120512>>,
      <<120514, 120538>>, <<120540, 120570>>, <<120572, 120596>>,
      <<120598, 120628>>, <<120630, 120654>>, <<120656, 120686>>,
      <<120688, 120712>>, <<120714, 120744>>, <<120746, 120770>>,
      <<120772, 120779>>, <<122624, 122633>>, <<122635, 122654>>,
      <<125184, 125251>>, <<127280, 127305>>, <<127312, 127337>>,
      <<127344, 127369>>
    >>

InRanges(c, ranges) ==
    \E i \in 1..Len(ranges) : ranges[i][1] <= c /\ c <= ranges[i][2]

IsCaseIgnorable(c) == InRanges(c, CaseIgnorableRanges)

IsCased(c) == InRanges(c, CasedRanges)

\* The lower case of the capital sigma at place i of s.
handle_capital_sigma(s, i) ==
    LET before == {j \in 1..(i - 1) : ~IsCaseIgnorable(s[j])}
        after == {j \in (i + 1)..Len(s) : ~IsCaseIgnorable(s[j])}
        last == CHOOSE j \in before : \A k \in before : k <= j
        next == CHOOSE j \in after : \A k \in after : j <= k
        final_sigma ==
            /\ before # {}
            /\ IsCased(s[last])
            /\ (after = {} \/ ~IsCased(s[next]))
    IN  IF final_sigma THEN 962 ELSE 963

\* The concatenation of the strings of a sequence: of its two halves.
RECURSIVE Concat(_)
Concat(strings) ==
    IF strings = <<>> THEN <<>>
    ELSE IF Len(strings) = 1 THEN strings[1]
    ELSE LET half == Len(strings) \div 2
         IN  Concat(SubSeq(strings, 1, half))
                 \o Concat(SubSeq(strings, half + 1, Len(strings)))

str_upper(s) == Concat([i \in 1..Len(s) |-> UpperChar(s[i])])

str_lower(s) ==
    Concat([i \in 1..Len(s) |->
               IF s[i] = 931 THEN <<handle_capital_sigma(s, i)>>
               ELSE LowerChar(s[i])])

---------------------------------------------------------------------------
(* Python values.                                                          *)

None == [type |-> "NoneType"]

PyStr(s) == [type |-> "str", v |-> s]

PyInt(n) == [type |-> "int", v |-> n]

\* The finite float num / den, den a power of two, with its sign bit.
PyFloat(num, den) ==
    [type |-> "float", num |-> num, den |-> den, signbit |-> num < 0]

\* -0.0: the float that equals 0.0 and has the sign bit set.
NegativeZero == [type |-> "float", num |-> 0, den |-> 1, signbit |-> TRUE]

PyBool(b) == [type |-> "bool", v |-> b]

PyList(items) == [type |-> "list", items |-> items]

\* A dict (also an OrderedDict): its entries in insertion order.
Entry(k, v) == [key |-> k, value |-> v]

PyDict(items) == [type |-> "dict", items |-> items]

\* bool is a subclass of int in Python: True is the integer 1, False is 0.
IsNumeric(x) == x.type \in {"int", "bool", "float"}

Num(x) ==
    CASE x.type = "bool" -> IF x.v THEN 1 ELSE 0
      [] x.type = "int" -> x.v
      [] x.type = "float" -> x.num

Den(x) == IF x.type = "float" THEN x.den ELSE 1

\* d.keys()
Keys(d) == {d.items[i].key : i \in 1..Len(d.items)}

\* d[k], for k in d.
Lookup(d, k) == d.items[CHOOSE i \in 1..Len(d.items) : d.items[i].key = k].value

\* x == y on JSON values: numbers are compared by value whatever their
\* types, lists element by element, dicts key by key in any order.
RECURSIVE PyEq(_, _)
PyEq(x, y) ==
    IF IsNumeric(x) /\ IsNumeric(y) THEN Num(x) * Den(y) = Num(y) * Den(x)
    ELSE IF x.type # y.type THEN FALSE
    ELSE CASE x.type = "NoneType" -> TRUE
           [] x.type = "str" -> x.v = y.v
           [] x.type = "list" ->
                 /\ Len(x.items) = Len(y.items)
                 /\ \A i \in 1..Len(x.items) : PyEq(x.items[i], y.items[i])
           [] x.type = "dict" ->
                 /\ Keys(x) = Keys(y)
                 /\ \A k \in Keys(x) : PyEq(Lookup(x, k), Lookup(y, k))

\* bool(x): None, an empty dict, an empty list, an empty string, False and 0
\* are false.
Truthy(x) ==
    CASE x.type = "NoneType" -> FALSE
      [] x.type \in {"list", "dict"} -> x.items # <<>>
      [] x.type = "str" -> x.v # <<>>
      [] x.type = "bool" -> x.v
      [] x.type = "int" -> x.v # 0
      [] x.type = "float" -> x.num # 0

\* d[k] = v: an existing key keeps its place and takes the new value, a new
\* key goes to the end.
DictSet(d, k, v) ==
    IF k \in Keys(d)
    THEN PyDict([i \in 1..Len(d.items) |->
                  IF d.items[i].key = k THEN Entry(k, v) ELSE d.items[i]])
    ELSE PyDict(Append(d.items, Entry(k, v)))

\* d.get(k, default)
Get(d, k, default) == IF k \in Keys(d) THEN Lookup(d, k) ELSE default

\* The outcome of a call: the value returned, or the exception raised with
\* its text, str(e).
Return(value) == [raised |-> "", value |-> value]

Raise(exception, message) == [raised |-> exception, message |-> message]

\* x.name for a value x of a type without that attribute.
NoAttribute(x, name) ==
    Raise("AttributeError",
          "'" \o x.type \o "' object has no attribute '" \o name \o "'")

---------------------------------------------------------------------------
(* The string literals of app.py that the code looks up or computes on.    *)

\* "rules"
KeyRules == <<114, 117, 108, 101, 115>>

\* "conditions"
KeyConditions == <<99, 111, 110, 100, 105, 116, 105, 111, 110, 115>>

\* "prediction"
KeyPrediction == <<112, 114, 101, 100, 105, 99, 116, 105, 111, 110>>

\* "actions"
KeyActions == <<97, 99, 116, 105, 111, 110, 115>>

\* "StayEnrolled"
StayEnrolled == <<83, 116, 97, 121, 69, 110, 114, 111, 108, 108, 101, 100>>

\* "dropout"
Dropout == <<100, 114, 111, 112, 111, 117, 116>>

\* "graduate"
Graduate == <<103, 114, 97, 100, 117, 97, 116, 101>>

\* "staysenrolled"
StaysEnrolled ==
    <<115, 116, 97, 121, 115, 101, 110, 114, 111, 108, 108, 101, 100>>

\* "Based on the provided facts, the expert system predicts a high risk of
\* dropout. "
DropoutTemplate ==
    <<66, 97, 115, 101, 100, 32, 111, 110, 32, 116, 104, 101, 32, 112, 114,
      111, 118, 105, 100, 101, 100, 32, 102, 97, 99, 116, 115, 44, 32, 116,
      104, 101, 32, 101, 120, 112, 101, 114, 116, 32, 115, 121, 115, 116, 101,
      109, 32, 112, 114, 101, 100, 105, 99, 116, 115, 32, 97, 32, 104, 105,
      103, 104, 32, 114, 105, 115, 107, 32, 111, 102, 32, 100, 114, 111, 112,
      111, 117, 116, 46, 32>>

\* "Based on the provided facts, the expert system predicts the student will
\* graduate successfully. "
GraduateTemplate ==
    <<66, 97, 115, 101, 100, 32, 111, 110, 32, 116, 104, 101, 32, 112, 114,
      111, 118, 105, 100, 101, 100, 32, 102, 97, 99, 116, 115, 44, 32, 116,
      104, 101, 32, 101, 120, 112, 101, 114, 116, 32, 115, 121, 115, 116, 101,
      109, 32, 112, 114, 101, 100, 105, 99, 116, 115, 32, 116, 104, 101, 32,
      115, 116, 117, 100, 101, 110, 116, 32, 119, 105, 108, 108, 32, 103, 114,
      97, 100, 117, 97, 116, 101, 32, 115, 117, 99, 99, 101, 115, 115, 102,
      117, 108, 108, 121, 46, 32>>

\* "Based on the provided facts, the expert system predicts the student will
\* stay enrolled. "
StaysEnrolledTemplate ==
    <<66, 97, 115, 101, 100, 32, 111, 110, 32, 116, 104, 101, 32, 112, 114,
      111, 118, 105, 100, 101, 100, 32, 102, 97, 99, 116, 115, 44, 32, 116,
      104, 101, 32, 101, 120, 112, 101, 114, 116, 32, 115, 121, 115, 116, 101,
      109, 32, 112, 114, 101, 100, 105, 99, 116, 115, 32, 116, 104, 101, 32,
      115, 116, 117, 100, 101, 110, 116, 32, 119, 105, 108, 108, 32, 115, 116,
      97, 121, 32, 101, 110, 114, 111, 108, 108, 101, 100, 46, 32>>

\* "Based on the provided facts, the expert system prediction: "
OtherTemplate ==
    <<66, 97, 115, 101, 100, 32, 111, 110, 32, 116, 104, 101, 32, 112, 114,
      111, 118, 105, 100, 101, 100, 32, 102, 97, 99, 116, 115, 44, 32, 116,
      104, 101, 32, 101, 120, 112, 101, 114, 116, 32, 115, 121, 115, 116, 101,
      109, 32, 112, 114, 101, 100, 105, 99, 116, 105, 111, 110, 58, 32>>

\* "Based on the provided facts, no specific rule matched. General
\* monitoring recommended."
NoMatchExplanation ==
    <<66, 97, 115, 101, 100, 32, 111, 110, 32, 116, 104, 101, 32, 112, 114,
      111, 118, 105, 100, 101, 100, 32, 102, 97, 99, 116, 115, 44, 32, 110,
      111, 32, 115, 112, 101, 99, 105, 102, 105, 99, 32, 114, 117, 108, 101,
      32, 109, 97, 116, 99, 104, 101, 100, 46, 32, 71, 101, 110, 101, 114, 97,
      108, 32, 109, 111, 110, 105, 116, 111, 114, 105, 110, 103, 32, 114, 101,
      99, 111, 109, 109, 101, 110, 100, 101, 100, 46>>

\* "Regular check-ins with academic advisor"
RegularCheckIns ==
    <<82, 101, 103, 117, 108, 97, 114, 32, 99, 104, 101, 99, 107, 45, 105,
      110, 115, 32, 119, 105, 116, 104, 32, 97, 99, 97, 100, 101, 109, 105,
      99, 32, 97, 100, 118, 105, 115, 111, 114>>

\* "Monitor academic performance"
MonitorPerformance ==
    <<77, 111, 110, 105, 116, 111, 114, 32, 97, 99, 97, 100, 101, 109, 105,
      99, 32, 112, 101, 114, 102, 111, 114, 109, 97, 110, 99, 101>>

---------------------------------------------------------------------------
(* The functions of app.py.                                                *)

\* A converter that upper-cases every character, not only the first one.
CamelToPascalWholeString(camel_str) == str_upper(camel_str)

camel_to_pascal(camel_str) ==
    IF camel_str = <<>> THEN camel_str
    ELSE UpperChar(camel_str[1]) \o Tail(camel_str)

pascal_to_camel(pascal_str) ==
    IF pascal_str = <<>> THEN pascal_str
    ELSE LowerChar(pascal_str[1]) \o Tail(pascal_str)

\* A normalisation in which the first of two colliding keys wins.
RECURSIVE PascalFactsFirstWins(_, _)
PascalFactsFirstWins(items, pascal_facts) ==
    IF items = <<>> THEN pascal_facts
    ELSE LET key == Head(items).key
             value == Head(items).value
             pascal_key == camel_to_pascal(key)
         IN  PascalFactsFirstWins(Tail(items),
                 IF value # None /\ pascal_key \notin Keys(pascal_facts)
                 THEN DictSet(pascal_facts, pascal_key, value)
                 ELSE pascal_facts)

\* match_rule's first loop, over facts.items(): the loop has built
\* pascal_facts and the entries items are left.
RECURSIVE PascalFacts(_, _)
PascalFacts(items, pascal_facts) ==
    IF items = <<>> THEN pascal_facts
    ELSE LET key == Head(items).key
             value == Head(items).value
             pascal_key == camel_to_pascal(key)
         IN  PascalFacts(Tail(items),
                 IF value # None
                 THEN DictSet(pascal_facts, pascal_key, value)
                 ELSE pascal_facts)

\* A test that also demands that every fact be named by a condition.
ConditionsMatchNoExtraFacts(items, pascal_facts) ==
    /\ \A i \in 1..Len(items) :
          /\ items[i].key \in Keys(pascal_facts)
          /\ PyEq(Lookup(pascal_facts, items[i].key), items[i].value)
    /\ Keys(pascal_facts) \subseteq {items[i].key : i \in 1..Len(items)}

\* match_rule's inner loop, over conditions.items(): the value of matches
\* when the loop ends or breaks.
RECURSIVE ConditionsMatch(_, _)
ConditionsMatch(items, pascal_facts) ==
    IF items = <<>> THEN TRUE
    ELSE LET condition_key == Head(items).key
             condition_value == Head(items).value
         IN  IF condition_key \notin Keys(pascal_facts) THEN FALSE
             ELSE IF ~PyEq(Lookup(pascal_facts, condition_key), condition_value)
                  THEN FALSE
             ELSE ConditionsMatch(Tail(items), pascal_facts)

\* A scan that goes through the rules last to first.
RECURSIVE FirstMatchLastWins(_, _)
FirstMatchLastWins(rules, pascal_facts) ==
    IF rules = <<>> THEN Return(None)
    ELSE LET rule == rules[Len(rules)]
             conditions == Get(rule, KeyConditions, PyDict(<<>>))
         IN  IF rule.type # "dict" THEN NoAttribute(rule, "get")
             ELSE IF conditions.type # "dict" THEN NoAttribute(conditions, "items")
             ELSE IF ConditionsMatch(conditions.items, pascal_facts)
                  THEN Return(rule)
             ELSE FirstMatchLastWins(SubSeq(rules, 1, Len(rules) - 1), pascal_facts)

\* match_rule's loop over rules: the rule returned, or None, or the
\* exception of an element that is no dict or whose conditions are none.
RECURSIVE FirstMatch(_, _)
FirstMatch(rules, pascal_facts) ==
    IF rules = <<>> THEN Return(None)
    ELSE LET rule == Head(rules)
             conditions == Get(rule, KeyConditions, PyDict(<<>>))
         IN  IF rule.type # "dict" THEN NoAttribute(rule, "get")
             ELSE IF conditions.type # "dict" THEN NoAttribute(conditions, "items")
             ELSE IF ConditionsMatch(conditions.items, pascal_facts)
                  THEN Return(rule)
             ELSE FirstMatch(Tail(rules), pascal_facts)

\* The values a for loop over x visits: the elements of a list, the keys of
\* a dict, the characters of a str.
Elements(x) ==
    CASE x.type = "list" -> x.items
      [] x.type = "dict" -> [i \in 1..Len(x.items) |-> PyStr(x.items[i].key)]
      [] x.type = "str" -> [i \in 1..Len(x.v) |-> PyStr(<<x.v[i]>>)]

match_rule(facts, rules) ==
    IF rules.type \notin {"list", "dict", "str"}
    THEN Raise("TypeError", "'" \o rules.type \o "' object is not iterable")
    ELSE FirstMatch(Elements(rules), PascalFacts(facts.items, PyDict(<<>>)))

\* A formatter that compares the label as written, without lower-casing it.
FormatPredictionCaseSensitive(prediction, actions) ==
    LET remedies == IF Truthy(actions) THEN actions ELSE PyList(<<>>)
        Response(will_dropout, risk_level, template) ==
            Return([willDropout |-> will_dropout, riskLevel |-> risk_level,
                    explanation |-> template \o prediction.v,
                    remedies |-> remedies])
    IN  IF prediction.type # "str" THEN NoAttribute(prediction, "lower")
        ELSE IF prediction.v = Dropout
        THEN Response(TRUE, "High", DropoutTemplate)
        ELSE IF prediction.v = Graduate
        THEN Response(FALSE, "Low", GraduateTemplate)
        ELSE IF prediction.v = StaysEnrolled
        THEN Response(FALSE, "Medium", StaysEnrolledTemplate)
        ELSE Response(FALSE, "Medium", OtherTemplate)

format_prediction(prediction, actions) ==
    LET prediction_lower == str_lower(prediction.v)
        remedies == IF Truthy(actions) THEN actions ELSE PyList(<<>>)
        Response(will_dropout, risk_level, template) ==
            Return([willDropout |-> will_dropout, riskLevel |-> risk_level,
                    explanation |-> template \o prediction.v,
                    remedies |-> remedies])
    IN  IF prediction.type # "str" THEN NoAttribute(prediction, "lower")
        ELSE IF prediction_lower = Dropout
        THEN Response(TRUE, "High", DropoutTemplate)
        ELSE IF prediction_lower = Graduate
        THEN Response(FALSE, "Low", GraduateTemplate)
        ELSE IF prediction_lower = StaysEnrolled
        THEN Response(FALSE, "Medium", StaysEnrolledTemplate)
        ELSE Response(FALSE, "Medium", OtherTemplate)

---------------------------------------------------------------------------
(* The files and their loaders.                                            *)

\* rules.json or facts.json on disk: absent, not readable by the server,
\* not text in the encoding of open() (the one byte FF under UTF-8), no
\* JSON (the empty file), JSON that json.load gives up on (an integer of
\* 4301 digits, arrays nested 200000 deep), or the JSON value it holds.
NoFile == [state |-> "absent"]

UnreadableFile == [state |-> "unreadable"]

UndecodableFile == [state |-> "undecodable"]

MalformedFile == [state |-> "malformed"]

OverlongFile == [state |-> "overlong"]

NestedFile == [state |-> "nested"]

JsonFile(content) == [state |-> "json", content |-> content]

\* with open(name, 'r') as f: json.load(f)
json_load(file, name) ==
    CASE file.state = "absent" ->
            Raise("FileNotFoundError",
                  "[Errno 2] No such file or directory: '" \o name \o "'")
      [] file.state = "unreadable" ->
            Raise("PermissionError",
                  "[Errno 13] Permission denied: '" \o name \o "'")
      [] file.state = "undecodable" ->
            Raise("UnicodeDecodeError",
                  "'utf-8' codec can't decode byte 0xff in position 0: "
                      \o "invalid start byte")
      [] file.state = "malformed" ->
            Raise("JSONDecodeError", "Expecting value: line 1 column 1 (char 0)")
      [] file.state = "overlong" ->
            Raise("ValueError",
                  "Exceeds the limit (4300 digits) for integer string "
                      \o "conversion: value has 4301 digits; use "
                      \o "sys.set_int_max_str_digits() to increase the limit")
      [] file.state = "nested" ->
            Raise("RecursionError",
                  "maximum recursion depth exceeded while decoding a JSON "
                      \o "array from a unicode string")
      [] file.state = "json" -> Return(file.content)

load_rules(file) ==
    LET loaded == json_load(file, "rules.json")
        content == loaded.value
    IN  IF loaded.raised # "" THEN loaded
        ELSE IF content.type = "dict"
        THEN IF KeyRules \in Keys(content) THEN Return(Lookup(content, KeyRules))
             ELSE Raise("KeyError", "'rules'")
        ELSE IF content.type = "list"
        THEN Raise("TypeError", "list indices must be integers or slices, not str")
        ELSE IF content.type = "str"
        THEN Raise("TypeError", "string indices must be integers, not 'str'")
        ELSE Raise("TypeError", "'" \o content.type \o "' object is not subscriptable")

load_facts(file) == json_load(file, "facts.json")

---------------------------------------------------------------------------
(* The request and the response: request.get_json(), json.dumps() and the  *)
(* encoding of the text that make_response() is given.                     *)

\* The request to the risk endpoint: a body that is JSON, sent as
\* application/json; a body sent as application/json that is no JSON (the
\* empty body); a body not sent as application/json, which Werkzeug from
\* 2.3 on rejects as of an unsupported media type ("UnsupportedMediaType"),
\* Werkzeug 2.1 and 2.2 as a bad request ("BadRequest"), and Werkzeug
\* before 2.1 takes for no body ("").
JsonBody(content) == [state |-> "json", content |-> content]

MalformedBody == [state |-> "malformed"]

UntypedBody(rejected) == [state |-> "untyped", rejected |-> rejected]

BadRequest ==
    Raise("BadRequest",
          "400 Bad Request: The browser (or proxy) sent a request "
              \o "that this server could not understand.")

\* request.get_json(): the value of the body, or the HTTP exception.
get_json(request) ==
    CASE request.state = "json" -> Return(request.content)
      [] request.state = "malformed" -> BadRequest
      [] request.state = "untyped" ->
            IF request.rejected = "UnsupportedMediaType"
            THEN Raise("UnsupportedMediaType",
                       "415 Unsupported Media Type: Did not attempt to load "
                           \o "JSON data because the request Content-Type "
                           \o "was not 'application/json'.")
            ELSE IF request.rejected = "BadRequest" THEN BadRequest
            ELSE Return(None)

\* The character of the hexadecimal digit n.
HexDigit(n) == IF n < 10 THEN 48 + n ELSE 87 + n

\* The decimal digits of n, n >= 0.
RECURSIVE int_digits(_)
int_digits(n) ==
    IF n < 10 THEN <<n>> ELSE int_digits(n \div 10) \o <<n % 10>>

\* repr(n) of an int.
int_repr(n) ==
    LET digits == int_digits(IF n < 0 THEN -n ELSE n)
    IN  (IF n < 0 THEN <<45>> ELSE <<>>)
            \o [i \in 1..Len(digits) |-> 48 + digits[i]]

\* The number of bits of n, n >= 0.
RECURSIVE BitLength(_)
BitLength(n) == IF n = 0 THEN 0 ELSE 1 + BitLength(n \div 2)

\* A number of any size is the sequence of its decimal digits, high to low.
\* The function f of domain 1..n as a sequence of n elements.
Sequence(f) == f \o <<>>

Zeros(n) == Sequence([i \in 1..n |-> 0])

\* The quotient of the number of digits a, after a remainder of rem, by d:
\* long division, digit by digit.
RECURSIVE Divide(_, _, _)
Divide(a, d, rem) ==
    IF a = <<>> THEN <<>>
    ELSE LET t == (10 * rem) + Head(a)
         IN  <<t \div d>> \o Divide(Tail(a), d, t % d)

\* The whole part of a / 2^bits, in as many digits as a: 27 bits at a time.
RECURSIVE Halved(_, _)
Halved(a, bits) ==
    IF bits = 0 \/ a = <<>> THEN a
    ELSE LET step == IF bits > 27 THEN 27 ELSE bits
         IN  Halved(Divide(a, 2 ^ step, 0), bits - step)

\* a <= b, for a and b of as many digits.
LessEq(a, b) ==
    LET differ == {i \in 1..Len(a) : a[i] # b[i]}
        first == CHOOSE i \in differ : \A j \in differ : i <= j
    IN  differ = {} \/ a[first] < b[first]

\* a + 1, of one digit more when a is all nines.
Successor(a) ==
    LET below == {i \in 1..Len(a) : a[i] # 9}
        last == CHOOSE i \in below : \A j \in below : j <= i
    IN  IF below = {} THEN <<1>> \o Zeros(Len(a))
        ELSE Sequence([i \in 1..Len(a) |->
                          IF i < last THEN a[i]
                          ELSE IF i = last THEN a[i] + 1 ELSE 0])

\* The places of the first and of the last digit of x that is not 0, x # 0.
Highest(x) ==
    CHOOSE i \in 1..Len(x) : x[i] # 0 /\ \A j \in 1..(i - 1) : x[j] = 0

Lowest(x) ==
    CHOOSE i \in 1..Len(x) : x[i] # 0 /\ \A j \in (i + 1)..Len(x) : x[j] = 0

\* What the digits of x from a place on are worth, and what they lack to
\* one of the place before, when they are not all 0.
Rest(x, from) == Sequence([i \in 1..Len(x) |-> IF i < from THEN 0 ELSE x[i]])

Complement(x, from) ==
    LET last == Lowest(x)
    IN  Sequence([i \in 1..Len(x) |->
                     IF i < from \/ i > last THEN 0
                     ELSE IF i = last THEN 10 - x[i] ELSE 9 - x[i]])

\* The digits of x before a place, as they are or with 1 added to the last
\* of them, are a number no more than below under x, or above over x.
DownFits(x, from, below) == from > Lowest(x) \/ LessEq(Rest(x, from), below)

UpFits(x, from, above) ==
    from <= Lowest(x) /\ LessEq(Complement(x, from), above)

\* The first place, from a place on, before which the digits fit.
RECURSIVE Fewest(_, _, _, _)
Fewest(x, from, below, above) ==
    IF DownFits(x, from, below) \/ UpFits(x, from, above) THEN from
    ELSE Fewest(x, from + 1, below, above)

\* The digits of x before a place, rounded to the nearer of the two numbers
\* that fit (to the even one when they are as near), or the one that fits.
Nearest(x, from, below, above) ==
    LET first == Highest(x)
        down == Sequence([i \in 1..(from - first) |->
                             IF first + i - 1 <= Len(x) THEN x[first + i - 1]
                             ELSE 0])
        up == IF DownFits(x, from, below) /\ UpFits(x, from, above)
              THEN IF Rest(x, from) = Complement(x, from)
                   THEN x[from - 1] % 2 = 1
                   ELSE ~LessEq(Rest(x, from), Complement(x, from))
              ELSE UpFits(x, from, above)
    IN  IF up THEN Successor(down) ELSE down

\* The fewest digits of a number that is at most below under x or at most
\* above over x, x counted in units of 10^(-k), without the zeros at their
\* end; and the place of the decimal point after (or, when negative,
\* before) the first of them.
Shortest(x, k, below, above) ==
    LET from == Fewest(x, Highest(x) + 1, below, above)
        kept == Nearest(x, from, below, above)
    IN  [digits |-> SubSeq(kept, 1, Lowest(kept)),
         point |-> (Len(x) - k) - Highest(x) + 1
                       + (Len(kept) - (from - Highest(x)))]

\* n / 2^k in units of 10^(-k), of which it is a whole number.
Scaled(n, k) == Halved(int_digits(n) \o Zeros(k), k)

\* How far above the float n / 2^k a number may be that rounds to it, and
\* how far below, in whole units of 10^(-k).  The float has 53 bits, the
\* last of them 2^(e - 52) for e = BitLength(n) - 1 - k: a number rounds to
\* it when it is no more than 2^(e - 53) above, and no more than that
\* below, or 2^(e - 54) when the float is a power of two.  Rounding the
\* bounds down to whole units changes no comparison with a whole number.
HalfGap(n, k) ==
    Halved(Zeros(Len(int_digits(n)) - 1) \o <<1>> \o Zeros(k),
           54 + k - BitLength(n))

HalfGapBelow(n, k) ==
    IF n = 2 ^ (BitLength(n) - 1) THEN Halved(HalfGap(n, k), 1)
    ELSE HalfGap(n, k)

\* The digits that repr() prints for the float n / 2^k, n > 0: the fewest
\* digits of a decimal number that rounds to the float, and of the numbers
\* of that many digits the one nearest to the float (17 digits are always
\* enough).
ShortestDigits(n, k) ==
    Shortest(Scaled(n, k), k, HalfGapBelow(n, k), HalfGap(n, k))

\* The digits with the point among them, or zeros between the point and
\* the digits; with an exponent when the point is 4 or more places before
\* the digits or more than 16 places after the first.
Notation(shortest) ==
    LET figures == Sequence([i \in 1..Len(shortest.digits) |->
                                48 + shortest.digits[i]])
        point == shortest.point
        exponent == IF point < 1 THEN 1 - point ELSE point - 1
    IN  IF point > 16 \/ point < -3
        THEN <<figures[1]>>
                 \o (IF Len(figures) > 1 THEN <<46>> \o Tail(figures) ELSE <<>>)
                 \o <<101, IF point < 1 THEN 45 ELSE 43>>
                 \o (IF exponent < 10 THEN <<48>> ELSE <<>>)
                 \o int_repr(exponent)
        ELSE IF point <= 0
        THEN <<48, 46>> \o [i \in 1..(-point) |-> 48] \o figures
        ELSE IF point >= Len(figures)
        THEN figures \o [i \in 1..(point - Len(figures)) |-> 48] \o <<46, 48>>
        ELSE SubSeq(figures, 1, point) \o <<46>>
                 \o SubSeq(figures, point + 1, Len(figures))

\* repr(x) of a float: the sign, and the shortest digits that round to x.
float_repr(x) ==
    LET n == IF x.num < 0 THEN -x.num ELSE x.num
    IN  (IF x.signbit THEN <<45>> ELSE <<>>)
            \o (IF n = 0 THEN <<48, 46, 48>>
                ELSE Notation(ShortestDigits(n, BitLength(x.den) - 1)))

\* json.encoder.encode_basestring(s): the string in double quotes, with
\* the quote, the backslash and the control characters escaped.
py_encode_basestring(s) ==
    LET Escaped(c) ==
            CASE c = 34 -> <<92, 34>>
              [] c = 92 -> <<92, 92>>
              [] c = 8 -> <<92, 98>>
              [] c = 12 -> <<92, 102>>
              [] c = 10 -> <<92, 110>>
              [] c = 13 -> <<92, 114>>
              [] c = 9 -> <<92, 116>>
              [] OTHER ->
                    IF c < 32
                    THEN <<92, 117, 48, 48, HexDigit(c \div 16), HexDigit(c % 16)>>
                    ELSE <<c>>
    IN  <<34>> \o Concat([i \in 1..Len(s) |-> Escaped(s[i])]) \o <<34>>

\* ", ".join(texts)
RECURSIVE Join(_)
Join(texts) ==
    IF texts = <<>> THEN <<>>
    ELSE IF Len(texts) = 1 THEN texts[1]
    ELSE texts[1] \o <<44, 32>> \o Join(Tail(texts))

\* "null"
JsonNull == <<110, 117, 108, 108>>

\* "true"
JsonTrue == <<116, 114, 117, 101>>

\* "false"
JsonFalse == <<102, 97, 108, 115, 101>>

\* json.dumps(o, ensure_ascii=False) of a value that json.load returned.
RECURSIVE json_dumps(_)
json_dumps(o) ==
    CASE o.type = "NoneType" -> JsonNull
      [] o.type = "bool" -> IF o.v THEN JsonTrue ELSE JsonFalse
      [] o.type = "int" -> int_repr(o.v)
      [] o.type = "float" -> float_repr(o)
      [] o.type = "str" -> py_encode_basestring(o.v)
      [] o.type = "list" ->
            <<91>> \o Join([i \in 1..Len(o.items) |-> json_dumps(o.items[i])])
                \o <<93>>
      [] o.type = "dict" ->
            <<123>>
                \o Join([i \in 1..Len(o.items) |->
                            py_encode_basestring(o.items[i].key) \o <<58, 32>>
                                \o json_dumps(o.items[i].value)])
                \o <<125>>

\* A code point that stands for half of a character of UTF-16.
IsSurrogate(c) == 55296 <= c /\ c <= 57343

\* The bytes of the character c in UTF-8, c no surrogate.
Utf8(c) ==
    IF c < 128 THEN <<c>>
    ELSE IF c < 2048 THEN <<192 + (c \div 64), 128 + (c % 64)>>
    ELSE IF c < 65536
    THEN <<224 + (c \div 4096), 128 + ((c \div 64) % 64), 128 + (c % 64)>>
    ELSE <<240 + (c \div 262144), 128 + ((c \div 4096) % 64),
           128 + ((c \div 64) % 64), 128 + (c % 64)>>

HexChars ==
    <<"0", "1", "2", "3", "4", "5", "6", "7", "8", "9", "a", "b", "c", "d",
      "e", "f">>

\* text.encode(): the bytes of the text in UTF-8; the first surrogates of
\* the text, one or several in a row, make it fail.
str_encode(text) ==
    LET surrogates == {i \in 1..Len(text) : IsSurrogate(text[i])}
        start == CHOOSE i \in surrogates : \A j \in surrogates : i <= j
        end == CHOOSE i \in start..Len(text) :
                  /\ \A j \in start..i : j \in surrogates
                  /\ (i + 1) \notin surrogates
        c == text[start]
        Hex(k) == HexChars[((c \div k) % 16) + 1]
    IN  IF surrogates = {}
        THEN Return([type |-> "bytes",
                     v |-> Concat([i \in 1..Len(text) |-> Utf8(text[i])])])
        ELSE IF start = end
        THEN Raise("UnicodeEncodeError",
                   "'utf-8' codec can't encode character '\\u"
                       \o Hex(4096) \o Hex(256) \o Hex(16) \o Hex(1)
                       \o "' in position " \o ToString(start - 1)
                       \o ": surrogates not allowed")
        ELSE Raise("UnicodeEncodeError",
                   "'utf-8' codec can't encode characters in position "
                       \o ToString(start - 1) \o "-" \o ToString(end - 1)
                       \o ": surrogates not allowed")

\* make_response(text): the response carries the text as bytes.
make_response(text) == str_encode(text)

---------------------------------------------------------------------------
(* The handlers.  A handler's outcome is the response (the status and,   *)
(* for body, the value whose JSON text the response carries) and the       *)
(* sequence of the functions it called on the way.                         *)

Outcome(status, body, called) ==
    [response |-> [status |-> status, body |-> body], calls |-> called]

Error(message) == [error |-> message]

\* The except clauses of a handler, for the exception raised.
Except(raised, notFound, invalidFormat, called) ==
    IF raised.raised = "FileNotFoundError"
    THEN Outcome(500, Error(notFound), called)
    ELSE IF raised.raised = "JSONDecodeError"
    THEN Outcome(500, Error(invalidFormat), called)
    ELSE Outcome(500, Error(raised.message), called)

\* A default response that reports a high risk.
DefaultResponseHighRisk ==
    [willDropout |-> FALSE, riskLevel |-> "High",
     explanation |-> NoMatchExplanation,
     remedies |-> PyList(<<PyStr(RegularCheckIns), PyStr(MonitorPerformance)>>)]

DefaultResponse ==
    [willDropout |-> FALSE, riskLevel |-> "Medium",
     explanation |-> NoMatchExplanation,
     remedies |-> PyList(<<PyStr(RegularCheckIns), PyStr(MonitorPerformance)>>)]

\* {k: v for k, v in data.items() if v is not None}
ProvidedFacts(data) == PyDict(SelectSeq(data.items, LAMBDA e : e.value # None))

\* dropout_risk from "Load rules" on: the rules are loaded and matched
\* against the provided facts, and the response is built.
AssessRisk(provided_facts, rulesFile) ==
    LET loaded == load_rules(rulesFile)
        matched == match_rule(provided_facts, loaded.value)
        matched_rule == matched.value
        prediction == Get(matched_rule, KeyPrediction, PyStr(StayEnrolled))
        actions == Get(matched_rule, KeyActions, PyList(<<>>))
        response == format_prediction(prediction, actions)
        RiskError(raised, called) ==
            Except(raised, "Rules file not found", "Invalid rules file format",
                   called)
    IN  IF loaded.raised # "" THEN RiskError(loaded, <<"load_rules">>)
        ELSE IF matched.raised # ""
        THEN RiskError(matched, <<"load_rules", "match_rule">>)
        ELSE IF Truthy(matched_rule)
        THEN IF response.raised # ""
             THEN RiskError(response,
                            <<"load_rules", "match_rule", "format_prediction">>)
             ELSE Outcome(200, response.value,
                          <<"load_rules", "match_rule", "format_prediction">>)
        ELSE Outcome(200, DefaultResponse, <<"load_rules", "match_rule">>)

dropout_risk(request, rulesFile) ==
    LET got == get_json(request)
        data == got.value
        provided_facts == ProvidedFacts(data)
        RiskError(raised) ==
            Except(raised, "Rules file not found", "Invalid rules file format",
                   <<>>)
    IN  IF got.raised # "" THEN RiskError(got)
        ELSE IF ~Truthy(data)
        THEN Outcome(400, Error("Missing request body"), <<>>)
        ELSE IF data.type # "dict" THEN RiskError(NoAttribute(data, "items"))
        ELSE IF Len(provided_facts.items) < 3
        THEN Outcome(400, Error("At least 3 facts are required"), <<>>)
        ELSE AssessRisk(provided_facts, rulesFile)

\* get_facts' loop over facts.items(): the loop has built camel_facts and
\* the entries items are left.
RECURSIVE CamelFacts(_, _)
CamelFacts(items, camel_facts) ==
    IF items = <<>> THEN camel_facts
    ELSE LET key == Head(items).key
             value == Head(items).value
             camel_key == pascal_to_camel(key)
         IN  CamelFacts(Tail(items), DictSet(camel_facts, camel_key, value))

\* A handler that lists the facts last to first.
GetFactsReversed(factsFile) ==
    LET loaded == load_facts(factsFile)
        facts == loaded.value
        Reversed(s) == [i \in 1..Len(s) |-> s[Len(s) + 1 - i]]
        camel_facts == CamelFacts(Reversed(facts.items), PyDict(<<>>))
        response == make_response(json_dumps(camel_facts))
        FactsError(raised) ==
            Except(raised, "Facts file not found", "Invalid facts file format",
                   <<"load_facts">>)
    IN  IF loaded.raised # "" THEN FactsError(loaded)
        ELSE IF facts.type # "dict" THEN FactsError(NoAttribute(facts, "items"))
        ELSE IF response.raised # "" THEN FactsError(response)
        ELSE Outcome(200, camel_facts, <<"load_facts">>)

get_facts(factsFile) ==
    LET loaded == load_facts(factsFile)
        facts == loaded.value
        camel_facts == CamelFacts(facts.items, PyDict(<<>>))
        response == make_response(json_dumps(camel_facts))
        FactsError(raised) ==
            Except(raised, "Facts file not found", "Invalid facts file format",
                   <<"load_facts">>)
    IN  IF loaded.raised # "" THEN FactsError(loaded)
        ELSE IF facts.type # "dict" THEN FactsError(NoAttribute(facts, "items"))
        ELSE IF response.raised # "" THEN FactsError(response)
        ELSE Outcome(200, camel_facts, <<"load_facts">>)

---------------------------------------------------------------------------
(* The inputs of the calls.                                                *)

\* All sequences over S of length at most n.
SeqsUpTo(S, n) == UNION {[1..k -> S] : k \in 0..n}

\* All dicts of at most n entries with keys from K and values from V, in
\* every insertion order.
DictsOver(K, V, n) ==
    {PyDict(items) : items \in
        {s \in SeqsUpTo({Entry(k, v) : k \in K, v \in V}, n) :
            \A i, j \in 1..Len(s) : s[i].key = s[j].key => i = j}}

\* Characters of the strings handed to the converters: "a", "A" and "1";
\* letters above ASCII of either case (U+00E9, U+00C9); lower-case letters
\* whose upper case is two characters (U+00DF, U+FB01) or does not convert
\* back (U+00B5, U+0131); a title-case letter with an upper case of one
\* character (U+01C5) and one with an upper case of two (U+1F88); the
\* dotted capital I (U+0130), the capital sigma (U+03A3) and the Kelvin
\* sign (U+212A).
NameChars ==
    {97, 65, 49, 233, 201, 223, 64257, 181, 305, 453, 8072, 304, 931, 8490}

Names == SeqsUpTo(NameChars, MaxStrLen)

\* Fact names as a caller sends them, among them two that differ only in
\* the case of the first character.
\* "age"
age == <<97, 103, 101>>

\* "Age"
Age == <<65, 103, 101>>

\* "gpa"
gpa == <<103, 112, 97>>

\* "Gpa"
Gpa == <<71, 112, 97>>

\* "fee"
fee == <<102, 101, 101>>

FactNames == {age, Age, gpa}

\* "1"
One == <<49>>

FactValues == {None, PyInt(1), PyStr(One), PyBool(TRUE)}

FactDicts == DictsOver(FactNames, FactValues, MaxFacts)

\* "Tutoring"
Tutoring == PyStr(<<84, 117, 116, 111, 114, 105, 110, 103>>)

\* "Counselling"
Counselling == PyStr(<<67, 111, 117, 110, 115, 101, 108, 108, 105, 110, 103>>)

\* Rules: with and without conditions, with one and with two conditions,
\* with conditions of every JSON scalar type, and the empty rule {}.
RuleOf(conditions, label, actions) ==
    PyDict(<<Entry(KeyConditions, conditions), Entry(KeyPrediction, PyStr(label)),
           Entry(KeyActions, actions)>>)

CatchAll ==
    RuleOf(PyDict(<<>>),
           <<68, 114, 111, 112, 111, 117, 116>>,  \* "Dropout"
           PyList(<<Tutoring>>))

SampleRules ==
    { PyDict(<<>>),
      PyDict(<<Entry(KeyPrediction,
                     \* "GRADUATE"
                     PyStr(<<71, 82, 65, 68, 85, 65, 84, 69>>)),
             Entry(KeyActions, None)>>),
      CatchAll,
      RuleOf(PyDict(<<Entry(Age, PyInt(1))>>),
             <<103, 114, 97, 100, 117, 97, 116, 101>>,  \* "graduate"
             PyList(<<>>)),
      RuleOf(PyDict(<<Entry(Age, PyStr(One))>>),
             <<68, 114, 111, 112, 111, 117, 116, 115>>,  \* "Dropouts"
             PyList(<<Tutoring, Counselling>>)),
      RuleOf(PyDict(<<Entry(Age, PyBool(TRUE)), Entry(Gpa, PyInt(1))>>),
             \* "StaysEnrolled"
             <<83, 116, 97, 121, 115, 69, 110, 114, 111, 108, 108, 101, 100>>,
             PyList(<<Counselling>>)) }

RuleLists == {PyList(rules) : rules \in SeqsUpTo(SampleRules, MaxRules)}

\* Values of "rules" that are no list of rules: a list with an element that
\* is no object, before and after a rule that matches, a rule whose
\* conditions are no object, and values that are no list.
BrokenRuleLists ==
    { PyList(<<PyInt(5)>>),
      PyList(<<PyInt(5), CatchAll>>),
      PyList(<<CatchAll, PyInt(5)>>),
      PyList(<<PyDict(<<Entry(KeyConditions, PyList(<<>>))>>)>>),
      PyList(<<PyDict(<<Entry(KeyConditions, None)>>)>>),
      PyDict(<<>>),
      PyDict(<<Entry(KeyConditions, PyDict(<<>>))>>),
      PyStr(<<>>),
      PyStr(One),
      PyInt(5),
      PyFloat(3, 2),
      PyBool(TRUE),
      None }

\* Rules whose prediction is no string.
BrokenRules ==
    { PyDict(<<Entry(KeyPrediction, None)>>),
      PyDict(<<Entry(KeyPrediction, PyInt(5))>>),
      PyDict(<<Entry(KeyConditions, PyDict(<<>>)),
             Entry(KeyPrediction, PyList(<<>>))>>) }

\* rules.json: missing, unreadable, no JSON, JSON that json.load gives up
\* on, JSON without "rules", JSON that is no object, and JSON with any of
\* the values of "rules" above.
RulesFiles ==
    {NoFile, UnreadableFile, UndecodableFile, MalformedFile, OverlongFile,
     NestedFile}
        \cup {JsonFile(content) :
                content \in {PyDict(<<>>), PyList(<<>>), PyStr(One), PyInt(5),
                             PyBool(TRUE), None}}
        \cup {JsonFile(PyDict(<<Entry(KeyRules, rules)>>)) :
                rules \in RuleLists \cup BrokenRuleLists
                              \cup {PyList(<<rule>>) : rule \in BrokenRules}}

\* Request bodies: JSON null, a JSON object, or another JSON value.
BodyNames == {age, Age, gpa, fee}

BodyValues == {None, PyInt(1), PyStr(One)}

OtherBodies ==
    { PyList(<<>>), PyList(<<PyInt(1)>>),
      PyList(<<PyInt(1), PyInt(1), PyInt(1)>>),
      PyStr(<<>>), PyStr(One), PyInt(0), PyInt(5), PyFloat(3, 2),
      PyBool(FALSE), PyBool(TRUE) }

Bodies == {None} \cup DictsOver(BodyNames, BodyValues, MaxFacts) \cup OtherBodies

\* Requests: with each of the bodies, with a body that is no JSON, and
\* with a body not sent as JSON, to a Flask that rejects it either way and
\* to one that does not.
Requests ==
    {JsonBody(data) : data \in Bodies}
        \cup {MalformedBody}
        \cup {UntypedBody(rejected) :
                rejected \in {"UnsupportedMediaType", "BadRequest", ""}}

\* Labels: the three words in several cases, words that hold one of them,
\* other words, and words with letters above ASCII: a capital sigma at the
\* end of a word, the long s (U+017F) for the s of "staysenrolled", the
\* Kelvin sign (U+212A), whose lower case is "k".
Labels ==
    { <<100, 114, 111, 112, 111, 117, 116>>,  \* "dropout"
      <<68, 114, 111, 112, 111, 117, 116>>,  \* "Dropout"
      <<68, 82, 79, 80, 79, 85, 84>>,  \* "DROPOUT"
      <<100, 114, 111, 112, 111, 117, 116, 115>>,  \* "dropouts"
      <<110, 111, 100, 114, 111, 112, 111, 117, 116>>,  \* "nodropout"
      <<103, 114, 97, 100, 117, 97, 116, 101>>,  \* "graduate"
      <<71, 114, 97, 100, 117, 97, 116, 101>>,  \* "Graduate"
      <<71, 82, 65, 68, 85, 65, 84, 69>>,  \* "GRADUATE"
      <<103, 114, 97, 100, 117, 97, 116, 101, 100>>,  \* "graduated"
      \* "staysenrolled"
      <<115, 116, 97, 121, 115, 101, 110, 114, 111, 108, 108, 101, 100>>,
      \* "StaysEnrolled"
      <<83, 116, 97, 121, 115, 69, 110, 114, 111, 108, 108, 101, 100>>,
      \* "StayEnrolled"
      <<83, 116, 97, 121, 69, 110, 114, 111, 108, 108, 101, 100>>,
      <<85, 110, 107, 110, 111, 119, 110>>,  \* "Unknown"
      <<913, 931>>,  \* "\u0391\u03a3"
      \* "\u017ftaysenrolled"
      <<383, 116, 97, 121, 115, 101, 110, 114, 111, 108, 108, 101, 100>>,
      <<8490>>,  \* "\u212a"
      <<>> }  \* ""

\* Predictions: the labels, and values that are no string.
Predictions == {PyStr(label) : label \in Labels} \cup {None, PyInt(5)}

Remedies == {Tutoring, Counselling}

ActionLists == {None} \cup {PyList(items) : items \in SeqsUpTo(Remedies, MaxActions)}

\* facts.json: PascalCase names, among them one above ASCII, and names that
\* become equal in camelCase; a name of two surrogates and a value of one
\* (the JSON strings "\udc00\ud800" and "\ud800"), which no text in UTF-8
\* can hold; float values, 2 ** -24 (written with an exponent) and -0.0;
\* and files that hold no JSON object.
\* "\u00c9tat"
Etat == <<201, 116, 97, 116>>

Surrogates == <<56320, 55296>>

DefNames == {Age, age, One, Etat, Surrogates}

DefValues ==
    {PyStr(One), PyInt(1), PyFloat(1, 16777216), NegativeZero, PyStr(<<55296>>)}

FactsFiles ==
    {NoFile, UnreadableFile, UndecodableFile, MalformedFile, OverlongFile,
     NestedFile}
        \cup {JsonFile(content) :
                content \in {PyList(<<>>), PyList(<<PyInt(1)>>), PyStr(One),
                             PyInt(5), None}}
        \cup {JsonFile(d) : d \in DictsOver(DefNames, DefValues, MaxDefs)}

\* Values of match_rule's rules: lists of rules, and the values above.
MatchRules == RuleLists \cup BrokenRuleLists

---------------------------------------------------------------------------
(* The calls.                                                              *)

Pending(c) == call = c /\ pc = "call" /\ result = None /\ calls = <<>>

InitNames ==
    \E s \in Names, op \in {"camel_to_pascal", "pascal_to_camel"} :
        Pending([op |-> op, s |-> s])

InitMatch ==
    \E facts \in FactDicts, rules \in MatchRules :
        Pending([op |-> "match_rule", facts |-> facts, rules |-> rules])

InitFormat ==
    \E prediction \in Predictions, actions \in ActionLists :
        Pending([op |-> "format_prediction", prediction |-> prediction,
                 actions |-> actions])

InitRisk ==
    \E request \in Requests, rulesFile \in RulesFiles :
        Pending([op |-> "dropout_risk", request |-> request,
                 rulesFile |-> rulesFile])

InitFacts ==
    \E factsFile \in FactsFiles :
        Pending([op |-> "get_facts", factsFile |-> factsFile])

Init == InitNames \/ InitMatch \/ InitFormat \/ InitRisk \/ InitFacts

\* A function returns or raises: result is the outcome.
Returns(outcome) ==
    /\ pc' = "return"
    /\ result' = outcome
    /\ calls' = <<>>
    /\ UNCHANGED call

\* A handler responds: result is the response.
Responds(outcome) ==
    /\ pc' = "return"
    /\ result' = outcome.response
    /\ calls' = outcome.calls
    /\ UNCHANGED call

CamelToPascal ==
    /\ pc = "call" /\ call.op = "camel_to_pascal"
    /\ Returns(Return(camel_to_pascal(call.s)))

PascalToCamel ==
    /\ pc = "call" /\ call.op = "pascal_to_camel"
    /\ Returns(Return(pascal_to_camel(call.s)))

MatchRule ==
    /\ pc = "call" /\ call.op = "match_rule"
    /\ Returns(match_rule(call.facts, call.rules))

FormatPrediction ==
    /\ pc = "call" /\ call.op = "format_prediction"
    /\ Returns(format_prediction(call.prediction, call.actions))

DropoutRisk ==
    /\ pc = "call" /\ call.op = "dropout_risk"
    /\ Responds(dropout_risk(call.request, call.rulesFile))

GetFacts ==
    /\ pc = "call" /\ call.op = "get_facts"
    /\ Responds(get_facts(call.factsFile))

Next ==
    \/ CamelToPascal
    \/ PascalToCamel
    \/ MatchRule
    \/ FormatPrediction
    \/ DropoutRisk
    \/ GetFacts

Spec == Init /\ [][Next]_vars

SpecNames == InitNames /\ [][CamelToPascal \/ PascalToCamel]_vars

SpecMatch == InitMatch /\ [][MatchRule]_vars

SpecFormat == InitFormat /\ [][FormatPrediction]_vars

SpecRisk == InitRisk /\ [][DropoutRisk]_vars

SpecFacts == InitFacts /\ [][GetFacts]_vars

---------------------------------------------------------------------------
(* Vocabulary of the properties.                                           *)

Returned(op) == pc = "return" /\ call.op = op

Min(S) == CHOOSE i \in S : \A j \in S : i <= j

Max(S) == CHOOSE i \in S : \A j \in S : j <= i

\* The rule's conditions, none when the rule has no conditions key.
ConditionsOf(rule) == Get(rule, KeyConditions, PyDict(<<>>)).items

\* A rule: a JSON object whose conditions, if it has any, are a JSON object.
IsRule(rule) ==
    /\ rule.type = "dict"
    /\ Get(rule, KeyConditions, PyDict(<<>>)).type = "dict"

\* An ordered rule list: a JSON array of rules.
IsRuleList(rules) ==
    /\ rules.type = "list"
    /\ \A i \in 1..Len(rules.items) : IsRule(rules.items[i])

\* The places of the entries of items that are not None and whose name, in
\* internal form, is name.
Supplying(items, name) ==
    {i \in 1..Len(items) :
        items[i].value # None /\ camel_to_pascal(items[i].key) = name}

\* Every condition of the rule is supplied by the facts, the value being
\* that of the last entry supplying the name, and the values are equal.
Qualifies(rule, items) ==
    \A c \in 1..Len(ConditionsOf(rule)) :
        LET condition == ConditionsOf(rule)[c]
            places == Supplying(items, condition.key)
        IN  /\ places # {}
            /\ PyEq(items[Max(places)].value, condition.value)

Qualifying(rules, items) == {i \in 1..Len(rules) : Qualifies(rules[i], items)}

\* C1: match_rule returns the rule of lowest index whose every condition
\* key is present, with an equal value, among the facts that are not None
\* under their first-letter-upper-cased names, and None when there is no
\* such rule; a rule without conditions qualifies.
C1_FirstQualifyingRule ==
    (Returned("match_rule") /\ IsRuleList(call.rules)) =>
        LET rules == call.rules.items
            first == Qualifying(rules, call.facts.items)
        IN  /\ result.raised = ""
            /\ first = {} => result.value = None
            /\ first # {} => result.value = rules[Min(first)]
            /\ \A i \in 1..Len(rules) :
                  (ConditionsOf(rules[i]) = <<>>
                      /\ \A j \in 1..(i - 1) : j \notin first)
                          => result.value = rules[i]

\* Two different rules qualify, the first by a condition on a fact sent
\* under its lower-case name, next to a fact that is None.
C1_Witness ==
    /\ Returned("match_rule")
    /\ IsRuleList(call.rules)
    /\ Len(call.rules.items) = 2
    /\ call.rules.items[1] # call.rules.items[2]
    /\ Qualifying(call.rules.items, call.facts.items) = {1, 2}
    /\ ConditionsOf(call.rules.items[1]) # <<>>
    /\ \E i \in 1..Len(call.facts.items) : call.facts.items[i].value = None
    /\ \E i \in 1..Len(call.facts.items) :
          /\ call.facts.items[i].value # None
          /\ camel_to_pascal(call.facts.items[i].key) # call.facts.items[i].key
    /\ result.value = call.rules.items[1]

\* The number of entries of a request body whose value is not null: the
\* entries of an object, the elements of an array; another value has none.
NonNullEntries(data) ==
    CASE data.type = "dict" ->
            Cardinality({i \in 1..Len(data.items) : data.items[i].value # None})
      [] data.type = "list" ->
            Cardinality({i \in 1..Len(data.items) : data.items[i] # None})
      [] OTHER -> 0

\* The number of entries with a non-null value that a request sends: those
\* of its body; a body that is no JSON, or not sent as JSON, has none.
EntriesSent(request) ==
    IF request.state = "json" THEN NonNullEntries(request.content) ELSE 0

\* The request sends a JSON object.
SendsObject(request) ==
    request.state = "json" /\ request.content.type = "dict"

\* C2: a request with fewer than 3 non-null entries gets status 400,
\* whatever rules.json holds, also when it is missing or malformed, and
\* neither the loader, the matcher nor the formatter is called.
C2_TooFewFactsIs400 ==
    (Returned("dropout_risk") /\ EntriesSent(call.request) < 3) =>
        /\ result.status = 400
        /\ calls = <<>>

\* What holds of C2: a body that is null or a JSON object with fewer than 3
\* non-null entries gets status 400, whatever rules.json holds, and nothing
\* is called; another JSON body with fewer than 3 entries gets 400 when it
\* is empty, zero or false and 500 otherwise, a request whose body
\* get_json refuses gets 500, and nothing is called either.
TooFewFactsIs400OfObjects ==
    (Returned("dropout_risk") /\ EntriesSent(call.request) < 3) =>
        LET got == get_json(call.request)
        IN  /\ calls = <<>>
            /\ (got.raised = "" /\ got.value.type \in {"dict", "NoneType"})
                  => result.status = 400
            /\ result.status =
                  (IF got.raised # "" THEN 500
                   ELSE IF got.value.type = "dict" \/ ~Truthy(got.value)
                   THEN 400 ELSE 500)

\* The label is the word, up to the case of each letter.
EqualsIgnoringCase(label, word) ==
    /\ Len(label) = Len(word)
    /\ \A i \in 1..Len(word) :
          label[i] = word[i] \/ <<label[i]>> = UpperChar(word[i])

\* C3: format_prediction classifies by the whole label, ignoring case:
\* "dropout" gives willDropout and High, "graduate" gives Low, every other
\* label gives Medium, without willDropout; the explanation is the row's
\* template followed by the label as written; remedies is actions, or the
\* empty list when actions is None.
C3_FormatByLabel ==
    (Returned("format_prediction") /\ call.prediction.type = "str") =>
        LET label == call.prediction.v
            response == result.value
            isDropout == EqualsIgnoringCase(label, Dropout)
            isGraduate == EqualsIgnoringCase(label, Graduate)
            isStays == EqualsIgnoringCase(label, StaysEnrolled)
        IN  /\ result.raised = ""
            /\ response.willDropout <=> isDropout
            /\ response.riskLevel = "High" <=> isDropout
            /\ response.riskLevel = "Low" <=> isGraduate
            /\ response.riskLevel = "Medium" <=> (~isDropout /\ ~isGraduate)
            /\ response.explanation =
                  (CASE isDropout -> DropoutTemplate
                     [] isGraduate -> GraduateTemplate
                     [] isStays -> StaysEnrolledTemplate
                     [] OTHER -> OtherTemplate) \o label
            /\ response.remedies =
                  (IF call.actions = None THEN PyList(<<>>) ELSE call.actions)

\* A label in capitals is classified, and the remedies are handed on.
C3_Witness ==
    /\ Returned("format_prediction")
    /\ call.prediction.type = "str"
    /\ call.prediction.v # str_lower(call.prediction.v)
    /\ result.value.riskLevel = "Low"
    /\ call.actions # None
    /\ Len(call.actions.items) = 2
    /\ result.value.remedies = call.actions

\* The request passed the 3-fact check and rules.json holds a rule list,
\* of rules whose prediction, if they have any, is a string.
Matching ==
    /\ Returned("dropout_risk")
    /\ SendsObject(call.request)
    /\ EntriesSent(call.request) >= 3
    /\ call.rulesFile.state = "json"
    /\ call.rulesFile.content.type = "dict"
    /\ KeyRules \in Keys(call.rulesFile.content)
    /\ IsRuleList(Lookup(call.rulesFile.content, KeyRules))
    /\ \A i \in 1..Len(Lookup(call.rulesFile.content, KeyRules).items) :
          Get(Lookup(call.rulesFile.content, KeyRules).items[i],
              KeyPrediction, PyStr(StayEnrolled)).type = "str"

\* The rule the matcher returns for the request, or None.
MatchedRule ==
    match_rule(ProvidedFacts(call.request.content),
               Lookup(call.rulesFile.content, KeyRules)).value

\* The response the handler builds from what the matcher returned.
ResponseFor(matched_rule) ==
    IF Truthy(matched_rule)
    THEN format_prediction(Get(matched_rule, KeyPrediction, PyStr(StayEnrolled)),
                           Get(matched_rule, KeyActions, PyList(<<>>))).value
    ELSE DefaultResponse

\* C4: a request that passes the 3-fact check with a loadable rule list
\* gets status 200; the body is the default response exactly when the
\* matcher returns no rule, and the formatter's output for the rule's
\* prediction and actions whenever the matcher returns a rule.
C4_DefaultOnlyWithoutRule ==
    Matching =>
        /\ result.status = 200
        /\ result.body = DefaultResponse <=> MatchedRule = None
        /\ MatchedRule # None =>
              result.body =
                  format_prediction(
                      Get(MatchedRule, KeyPrediction, PyStr(StayEnrolled)),
                      Get(MatchedRule, KeyActions, PyList(<<>>))).value

\* facts.json holds a JSON object.
Listing ==
    /\ Returned("get_facts")
    /\ call.factsFile.state = "json"
    /\ call.factsFile.content.type = "dict"

\* The places of the source entries whose key, in external form, is name.
Defining(source, name) ==
    {i \in 1..Len(source) : pascal_to_camel(source[i].key) = name}

\* No two keys of the source become the same name in external form.
ConvertsApart(source) ==
    \A i, j \in 1..Len(source) :
        pascal_to_camel(source[i].key) = pascal_to_camel(source[j].key) => i = j

\* The listing has an entry for every source entry, in the same place, its
\* key converted and its value kept.
ListedEntryForEntry(source, listed) ==
    /\ Len(listed) = Len(source)
    /\ \A i \in 1..Len(source) :
          /\ listed[i].key = pascal_to_camel(source[i].key)
          /\ listed[i].value = source[i].value

\* C5 as stated: for every facts.json mapping the listing has as many
\* entries as the source, the i-th with the source's i-th key, its first
\* letter lower-cased, and the source's i-th value.
C5_ListingKeepsEveryEntry ==
    Listing =>
        /\ result.status = 200
        /\ ListedEntryForEntry(call.factsFile.content.items, result.body.items)

\* A key or a string of the value holds a surrogate.
RECURSIVE HoldsSurrogate(_)
HoldsSurrogate(x) ==
    CASE x.type = "str" -> \E i \in 1..Len(x.v) : IsSurrogate(x.v[i])
      [] x.type = "list" ->
            \E i \in 1..Len(x.items) : HoldsSurrogate(x.items[i])
      [] x.type = "dict" ->
            \E i \in 1..Len(x.items) :
                \/ HoldsSurrogate(PyStr(x.items[i].key))
                \/ HoldsSurrogate(x.items[i].value)
      [] OTHER -> FALSE

\* The listing holds the converted keys of the source, each once, in the
\* order of their first occurrence, each with the value of the last source
\* entry of that name; when no two source keys become the same name it
\* has an entry for every source entry, in the same place.
ListedInOrder(source, listed) ==
    /\ \A i \in 1..Len(source) :
          \E j \in 1..Len(listed) :
              listed[j].key = pascal_to_camel(source[i].key)
    /\ \A i \in 1..Len(listed) :
          /\ Defining(source, listed[i].key) # {}
          /\ listed[i].value = source[Max(Defining(source, listed[i].key))].value
          /\ \A j \in (i + 1)..Len(listed) :
                /\ listed[j].key # listed[i].key
                /\ Min(Defining(source, listed[i].key))
                      < Min(Defining(source, listed[j].key))
    /\ ConvertsApart(source) => ListedEntryForEntry(source, listed)

\* A key of the source holds a surrogate, or the value of an entry that
\* is the last of its name does.
ListsSurrogate(source) ==
    \E i \in 1..Len(source) :
        \/ HoldsSurrogate(PyStr(source[i].key))
        \/ /\ i = Max(Defining(source, pascal_to_camel(source[i].key)))
           /\ HoldsSurrogate(source[i].value)

\* C5 as amended: when a key of the source, or a string in the value of an
\* entry that is the last of its name, holds a surrogate, the endpoint
\* answers 500.  For every other source it answers 200 and the listing
\* holds the converted keys of the source, each once, in the order of
\* their first occurrence, each with the value of the last source entry
\* of that name; when no two source keys become the same name (as in
\* every source of 0 or 1 entries) it has an entry for every source entry,
\* in the same place.
C5_ListingKeepsOrder ==
    Listing =>
        IF ListsSurrogate(call.factsFile.content.items)
        THEN result.status = 500 /\ calls = <<"load_facts">>
        ELSE /\ result.status = 200
             /\ ListedInOrder(call.factsFile.content.items, result.body.items)

\* Two definitions under PascalCase names, one of them with a first letter
\* above ASCII and one of them a float, are listed in their order under
\* camelCase names.
C5_Witness ==
    /\ Listing
    /\ result.status = 200
    /\ Len(call.factsFile.content.items) = 2
    /\ ConvertsApart(call.factsFile.content.items)
    /\ \A i \in 1..2 :
          result.body.items[i].key # call.factsFile.content.items[i].key
    /\ \E i \in 1..2 : call.factsFile.content.items[i].key[1] > 127
    /\ result.body.items[1].value # result.body.items[2].value
    /\ \E i \in 1..2 : result.body.items[i].value.type = "float"

\* A character that is its own upper case and its own lower case.
Caseless(c) == UpperChar(c) = <<c>> /\ LowerChar(c) = <<c>>

\* A lower-case letter: its own lower case, with an upper case of its own.
IsLowerCase(c) == LowerChar(c) = <<c>> /\ UpperChar(c) # <<c>>

\* An upper-case or title-case letter: it has a lower case of its own.
HasLowerCase(c) == LowerChar(c) # <<c>>

\* The upper case of c is one character, whose lower case is c.
UpperConvertsBack(c) ==
    Len(UpperChar(c)) = 1 /\ LowerChar(UpperChar(c)[1]) = <<c>>

\* The lower case of c is one character, whose upper case is c.
LowerConvertsBack(c) ==
    Len(LowerChar(c)) = 1 /\ UpperChar(LowerChar(c)[1]) = <<c>>

\* A letter of either case whose other case is one letter that converts
\* back to it.
CaseInvertible(c) ==
    \/ IsLowerCase(c) /\ UpperConvertsBack(c)
    \/ HasLowerCase(c) /\ LowerConvertsBack(c)

\* The characters of s after the first are the last characters of t.
KeepsRest(s, t) ==
    /\ Len(t) >= Len(s)
    /\ SubSeq(t, Len(t) - Len(s) + 2, Len(t)) = Tail(s)

\* Both converters return the empty string for the empty string and leave
\* the characters after the first as they are.
ConvertersKeepRest ==
    (Returned("camel_to_pascal") \/ Returned("pascal_to_camel")) =>
        IF call.s = <<>> THEN result.value = <<>>
        ELSE KeepsRest(call.s, result.value)

\* C6 as stated: pascal_to_camel(camel_to_pascal(s)) = s for every
\* non-empty s whose first character has a case-invertible form; both
\* converters keep the rest of the string and map "" to "".
C6_RoundTripOfCasedFirst ==
    /\ ConvertersKeepRest
    /\ (Returned("camel_to_pascal") /\ call.s # <<>> /\ CaseInvertible(call.s[1]))
          => pascal_to_camel(result.value) = call.s

\* C6 as amended: pascal_to_camel(camel_to_pascal(s)) = s for every
\* non-empty s whose first character has no case or is a lower-case letter
\* whose upper case is one character with that letter for its lower case,
\* as every letter a to z is; it is not s when the first character is
\* another lower-case letter, or an upper-case or title-case letter, and
\* for an upper-case first letter it is s with that letter lower-cased;
\* both converters keep the rest of the string and map "" to "".
C6_RoundTripOfLowerFirst ==
    /\ ConvertersKeepRest
    /\ (Returned("camel_to_pascal") /\ call.s # <<>>) =>
          LET c == call.s[1]
              back == pascal_to_camel(result.value)
          IN  /\ (97 <= c /\ c <= 122) => back = call.s
              /\ Caseless(c) => back = call.s
              /\ IsLowerCase(c) => (back = call.s <=> UpperConvertsBack(c))
              /\ HasLowerCase(c) =>
                    /\ back # call.s
                    /\ UpperChar(c) = <<c>> => back = LowerChar(c) \o Tail(call.s)

\* A name in camelCase that begins with a lower-case letter above ASCII and
\* has a capital inside comes back from PascalCase.
C6_Witness ==
    /\ Returned("camel_to_pascal")
    /\ Len(call.s) = 3
    /\ call.s[1] > 127
    /\ IsLowerCase(call.s[1])
    /\ HasLowerCase(call.s[2])
    /\ IsLowerCase(call.s[3])
    /\ result.value # call.s
    /\ pascal_to_camel(result.value) = call.s

\* The facts of the call but the last, and the last: match_rule is called
\* with the facts F and one further entry.
EarlierFacts == SubSeq(call.facts.items, 1, Len(call.facts.items) - 1)

FurtherFact == call.facts.items[Len(call.facts.items)]

\* The rule's conditions hold of the facts, by match_rule's own test.
Satisfied(rule, items) ==
    ConditionsMatch(ConditionsOf(rule), PascalFacts(items, PyDict(<<>>)))

\* C7 as stated: when a rule's conditions are satisfied by facts F, they
\* stay satisfied after adding any entry whose key is not one of the rule's
\* condition keys, so match_rule still returns a rule.
C7_ExtraFactNeverBlocks ==
    (Returned("match_rule") /\ IsRuleList(call.rules) /\ call.facts.items # <<>>) =>
        \A i \in 1..Len(call.rules.items) :
            LET rule == call.rules.items[i]
            IN  (/\ Satisfied(rule, EarlierFacts)
                 /\ FurtherFact.key \notin Keys(Get(rule, KeyConditions, PyDict(<<>>))))
                    => /\ Satisfied(rule, call.facts.items)
                       /\ result.value # None

\* C7 as amended: when a rule's conditions are satisfied by facts F, they
\* stay satisfied after adding any entry whose key, with its first letter
\* upper-cased, is not one of the rule's condition keys, or whose value is
\* None, so match_rule still returns a rule.
C7_UnreferencedFactNeverBlocks ==
    (Returned("match_rule") /\ IsRuleList(call.rules) /\ call.facts.items # <<>>) =>
        \A i \in 1..Len(call.rules.items) :
            LET rule == call.rules.items[i]
            IN  (/\ Satisfied(rule, EarlierFacts)
                 /\ \/ FurtherFact.value = None
                    \/ camel_to_pascal(FurtherFact.key)
                          \notin Keys(Get(rule, KeyConditions, PyDict(<<>>))))
                    => /\ Satisfied(rule, call.facts.items)
                       /\ result.raised = ""
                       /\ result.value # None

\* A rule with a condition matches two facts, of which the second is one
\* the rule does not mention.
C7_Witness ==
    /\ Returned("match_rule")
    /\ IsRuleList(call.rules)
    /\ Len(call.facts.items) = 2
    /\ Len(call.rules.items) = 1
    /\ Len(ConditionsOf(call.rules.items[1])) = 1
    /\ Satisfied(call.rules.items[1], EarlierFacts)
    /\ FurtherFact.value # None
    /\ camel_to_pascal(FurtherFact.key)
          \notin Keys(Get(call.rules.items[1], KeyConditions, PyDict(<<>>)))
    /\ result.value = call.rules.items[1]

\* Equality without coercion: the same type and the same value.
StrictlyEqual(x, y) == x = y

\* C8: a supplied value satisfies a condition only if it has the type and
\* the value of the required one: match_rule returns its first rule only
\* when each of the rule's conditions is met by a fact strictly equal to it.
C8_StrictConditionEquality ==
    (Returned("match_rule") /\ IsRuleList(call.rules) /\ call.rules.items # <<>>) =>
        LET rule == call.rules.items[1]
            pascal_facts == PascalFacts(call.facts.items, PyDict(<<>>))
        IN  result.value = rule =>
                \A c \in 1..Len(ConditionsOf(rule)) :
                    LET condition == ConditionsOf(rule)[c]
                    IN  /\ condition.key \in Keys(pascal_facts)
                        /\ StrictlyEqual(Lookup(pascal_facts, condition.key),
                                         condition.value)

\* C9: every status-200 response of the risk endpoint has riskLevel Low,
\* Medium or High, and willDropout exactly when riskLevel is High.
C9_DropoutIffHigh ==
    (Returned("dropout_risk") /\ result.status = 200) =>
        /\ result.body.riskLevel \in {"Low", "Medium", "High"}
        /\ result.body.willDropout <=> result.body.riskLevel = "High"

\* A matched rule predicts dropout.
C9_Witness ==
    /\ Returned("dropout_risk")
    /\ result.status = 200
    /\ result.body.riskLevel = "High"
    /\ result.body.willDropout
    /\ result.body # DefaultResponse

\* Two names that differ at most in the case of their first character: the
\* first character of one is the upper case of that of the other.
SameButFirstCase(k1, k2) ==
    /\ k1 # <<>> /\ k2 # <<>>
    /\ Tail(k1) = Tail(k2)
    /\ \/ k1[1] = k2[1]
       \/ UpperChar(k1[1]) = <<k2[1]>>
       \/ UpperChar(k2[1]) = <<k1[1]>>

\* Two names that are one name in internal form.
Colliding(k1, k2) == camel_to_pascal(k1) = camel_to_pascal(k2)

\* The entries of items but those followed by an entry of the same
\* internal name.
LastOfEachName(items) ==
    LET keep == {i \in 1..Len(items) :
                    \A j \in (i + 1)..Len(items) :
                        ~Colliding(items[i].key, items[j].key)}
        F[i \in 0..Len(items)] ==
            IF i = 0 THEN <<>>
            ELSE IF i \in keep THEN Append(F[i - 1], items[i]) ELSE F[i - 1]
    IN  F[Len(items)]

Reverse(s) == [i \in 1..Len(s) |-> s[Len(s) + 1 - i]]

\* The entries of items but those that follow an entry of the same
\* internal name.
FirstOfEachName(items) == Reverse(LastOfEachName(Reverse(items)))

\* C10: the 3-fact check counts the non-null entries as sent, while
\* match_rule keeps one internal fact for the entries whose names differ
\* only in the case of the first character, with the value of the last of
\* them: a request can pass the check and be matched on fewer than 3
\* facts, and the response is the one for the request without the earlier
\* entries of each such name.
C10_LastOfCollidingNamesDecides ==
    (Returned("dropout_risk") /\ SendsObject(call.request)) =>
        LET provided == ProvidedFacts(call.request.content).items
            pascal_facts == PascalFacts(provided, PyDict(<<>>))
            rules == Lookup(call.rulesFile.content, KeyRules)
        IN  /\ result.status = 400 <=> Len(provided) < 3
            /\ \A i, j \in 1..Len(provided) :
                  SameButFirstCase(provided[i].key, provided[j].key)
                      => Colliding(provided[i].key, provided[j].key)
            /\ Len(pascal_facts.items) = Len(LastOfEachName(provided))
            /\ \A i \in 1..Len(provided) :
                  Lookup(pascal_facts, camel_to_pascal(provided[i].key)) =
                      provided[Max({j \in 1..Len(provided) :
                          Colliding(provided[i].key, provided[j].key)})].value
            /\ Matching =>
                  result.body =
                      ResponseFor(
                          match_rule(PyDict(LastOfEachName(provided)), rules).value)

\* A request of 3 facts, two of them under names that differ in the case
\* of the first character, passes the check and is matched on 2, by a rule
\* that the first of the two same-named entries would not have met.
C10_Witness ==
    /\ Matching
    /\ Len(ProvidedFacts(call.request.content).items) = 3
    /\ \E i, j \in 1..3 :
          /\ i # j
          /\ SameButFirstCase(ProvidedFacts(call.request.content).items[i].key,
                              ProvidedFacts(call.request.content).items[j].key)
    /\ Len(PascalFacts(ProvidedFacts(call.request.content).items, PyDict(<<>>)).items) = 2
    /\ result.status = 200
    /\ result.body # DefaultResponse
    /\ result.body #
          ResponseFor(match_rule(
              PyDict(FirstOfEachName(ProvidedFacts(call.request.content).items)),
              Lookup(call.rulesFile.content, KeyRules)).value)

===========================================================================
